---- MODULE Spec2Model ----
(***************************************************************************)
(* The migration pipeline of supabase-sync-script: SyncOrchestrator        *)
(* (core/sync-orchestrator.ts), the Postgres connection layer              *)
(* (clients/postgres-client.ts) and the step bodies it drives (RolesSync,  *)
(* SchemaSync, AuthSync, DataSync, SequenceSync, StorageSync).             *)
(*                                                                         *)
(* One run of execute() is a sequential program; pc is its position.       *)
(* External effects (database servers, dump tools, storage API, file       *)
(* system) answer nondeterministically.                                    *)
(***************************************************************************)
EXTENDS Integers, Sequences, FiniteSets, TLC

VARIABLES
    config,         \* the Config the orchestrator was constructed with
    pc,             \* position of execute()
    step,           \* index in Pipeline of the step at hand
    started,        \* names logged by runStep ("Starting step: ...")
    stepResults,    \* SyncOrchestrator.stepResults
    thrown,         \* error caught by execute()'s catch block
    pending,        \* error in flight while DataSync.sync runs its finally
    sourcePool,     \* SyncOrchestrator.sourcePool (0 = null, else index in pools)
    targetPool,     \* SyncOrchestrator.targetPool
    pools,          \* every pg.Pool created so far, in creation order
    sslPreference,  \* postgres-client.ts sslPreference map (host -> preference)
    attempts,       \* every testPostgresConnection call so far
    targetOps,      \* mutating operations issued against the target
    suspended,      \* steps whose SET session_replication_role = replica took effect
    files,          \* TempFileManager.files
    dirs,           \* TempFileManager.dirs
    disk,           \* temp files and directories that exist on disk
    result,         \* value execute() resolved to (NoResult before)
    faults,         \* what the dump and load tools failed at so far
    auth,           \* locals of AuthSync.sync (exported records, counters, client)
    targetAuth,     \* rows of auth.users and auth.identities on the target
    sequences,      \* target sequences: owning column's MAX, last_value, is_called
    seqRun,         \* locals of SequenceSync.resetAllSequences, pass after pass
    roleRun,        \* locals of RolesSync.filterRoles, line after line
    storageRun,     \* locals of StorageSync.sync: buckets, copies in flight, rewrite
    cliRun,         \* the sync command: the Run Result it got and its exit code
    dataRun,        \* DataSync: the rows of the target's tables; the URL built for a tool
    retryRun        \* locals of withRetry: attempt, delay, lastError

\* the variables only the data-level specifications below change
units == <<roleRun, storageRun, cliRun, dataRun, retryRun>>

aux == <<auth, targetAuth, sequences, seqRun, units>>

vars == <<config, pc, step, started, stepResults, thrown, pending, sourcePool,
          targetPool, pools, sslPreference, attempts, targetOps, suspended,
          files, dirs, disk, result, faults, aux>>

----------------------------------------------------------------------------
(* Configuration space *)

Hosts == {"db.a", "db.b", "localhost"}

\* A database URL: its hostname and whether the text outside the hostname
\* contains 'localhost' (user, password, database name or query string).
Url(host, rest) == [host |-> host, rest |-> rest]

Urls == { Url(h, r) : h \in Hosts, r \in {"", "localhost"} }

\* source and target of a run: two hosts, one host for both, a loopback on
\* either side, and a remote URL that mentions localhost outside its hostname
Endpoints ==
    { [source |-> Url("db.a", ""), target |-> Url("db.b", ""), sameApiUrl |-> FALSE],
      [source |-> Url("db.a", ""), target |-> Url("db.a", ""), sameApiUrl |-> TRUE],
      [source |-> Url("localhost", ""), target |-> Url("db.b", ""), sameApiUrl |-> FALSE],
      [source |-> Url("db.a", ""), target |-> Url("localhost", ""), sameApiUrl |-> FALSE],
      [source |-> Url("db.a", "localhost"), target |-> Url("db.a", ""), sameApiUrl |-> FALSE] }

Components == [roles : BOOLEAN, schema : BOOLEAN, auth : BOOLEAN,
               data : BOOLEAN, storage : BOOLEAN]

\* options.auth.migrateIdentities is left at its default in pipeline runs
Configs ==
    { [components |-> c, dryRun |-> d, source |-> e.source,
       target |-> e.target, sameApiUrl |-> e.sameApiUrl,
       migrateIdentities |-> TRUE] :
         c \in Components, d \in BOOLEAN, e \in Endpoints }

BaseDir == "/tmp/supabase-sync"

dryRun_ignored(cfg) == FALSE

\* the `if (this.config.dryRun)` guard that opens every sync() method
dryRun(cfg) == cfg.dryRun

----------------------------------------------------------------------------
(* Errors *)

NoError == [kind |-> "none", category |-> "", step |-> "", message |-> ""]

SyncError(message, category, stepName) ==
    [kind |-> "SyncError", category |-> category, step |-> stepName,
     message |-> message]

PlainError(message) ==
    [kind |-> "Error", category |-> "", step |-> "", message |-> message]

NoResult == [returned |-> FALSE]

\* values of the data-level variables while no data-level run is under way
NoAuthRun == [running |-> FALSE]

NoRows == [users |-> {}, identities |-> {}]

NoSequences == <<>>

NoSeqRun == [running |-> FALSE]

NoRun == [running |-> FALSE]

\* none of filterRoles, StorageSync.sync and the sync command is followed
IdleUnits ==
    /\ roleRun = NoRun
    /\ storageRun = NoRun
    /\ cliRun = NoRun
    /\ dataRun = NoRun
    /\ retryRun = NoRun

----------------------------------------------------------------------------
(* clients/postgres-client.ts *)

getHostFromUrl(dbUrl) == dbUrl.host

isLocalConnection(dbUrl) ==
    \/ dbUrl.host \in {"localhost", "127.0.0.1"}
    \/ dbUrl.rest = "localhost"

getSslPreference(pref, dbUrl) == pref[getHostFromUrl(dbUrl)]

setSslPreference_toggle(pref, dbUrl, useSsl) ==
    [pref EXCEPT ![getHostFromUrl(dbUrl)] =
        IF @ = "nossl" THEN "ssl" ELSE IF useSsl THEN "ssl" ELSE "nossl"]

setSslPreference_noop(pref, dbUrl, useSsl) == pref

setSslPreference(pref, dbUrl, useSsl) ==
    [pref EXCEPT ![getHostFromUrl(dbUrl)] = IF useSsl THEN "ssl" ELSE "nossl"]

useSsl_ignoreLocal(pref, dbUrl, forceNoSsl) ==
    ~(forceNoSsl \/ pref[getHostFromUrl(dbUrl)] = "nossl")

\* the ssl option createPostgresPool passes to new Pool(...)
useSsl(pref, dbUrl, forceNoSsl) ==
    LET isLocalhost == isLocalConnection(dbUrl)
        useNoSsl == forceNoSsl \/ pref[getHostFromUrl(dbUrl)] = "nossl"
    IN  ~isLocalhost /\ ~useNoSsl

createPostgresPool(pref, connection, forceNoSsl) ==
    [url |-> connection, ssl |-> useSsl(pref, connection, forceNoSsl),
     forceNoSsl |-> forceNoSsl, ending |-> FALSE, clients |-> <<>>]

shouldUseSsl(pref, dbUrl) ==
    IF isLocalConnection(dbUrl) THEN FALSE
    ELSE getSslPreference(pref, dbUrl) # "nossl"

\* What pool.connect() / SELECT 1 can answer: success, or an error with a
\* code and the marker texts its message contains.
ConnError(code, text) == [code |-> code, text |-> text]

ConnErrors ==
    { ConnError("ECONNREFUSED", {}),
      ConnError("ECONNREFUSED", {"SSL"}),
      ConnError("ENOTFOUND", {}),
      ConnError("28P01", {"password authentication failed"}),
      ConnError("other", {"password authentication failed", "SSL"}),
      ConnError("3D000", {"does not exist"}),
      ConnError("other", {"does not exist", "SSL"}),
      ConnError("ETIMEDOUT", {}),
      ConnError("other", {"SSL"}),
      ConnError("other", {}) }

Ok == [code |-> "ok", text |-> {}]

ConnOutcomes == {Ok} \cup ConnErrors

helpfulMessage_sslFirst(err) ==
    IF "SSL" \in err.text THEN "SSL error"
    ELSE IF err.code = "ECONNREFUSED" THEN "Connection refused"
    ELSE IF err.code = "ENOTFOUND" THEN "Host not found"
    ELSE IF err.code = "28P01" \/ "password authentication failed" \in err.text
         THEN "Authentication failed"
    ELSE IF err.code = "3D000" \/ "does not exist" \in err.text
         THEN "Database not found"
    ELSE IF err.code = "ETIMEDOUT" THEN "Connection timed out"
    ELSE "raw"

\* the else-if chain of testPostgresConnection's catch block
helpfulMessage(err) ==
    IF err.code = "ECONNREFUSED" THEN "Connection refused"
    ELSE IF err.code = "ENOTFOUND" THEN "Host not found"
    ELSE IF err.code = "28P01" \/ "password authentication failed" \in err.text
         THEN "Authentication failed"
    ELSE IF err.code = "3D000" \/ "does not exist" \in err.text
         THEN "Database not found"
    ELSE IF err.code = "ETIMEDOUT" THEN "Connection timed out"
    ELSE IF "SSL" \in err.text THEN "SSL error"
    ELSE "raw"

\* result.error.includes('SSL') on the message testPostgresConnection returns
includesSSL(err) == helpfulMessage(err) = "SSL error"

\* testPostgresConnection: a successful test leaves its client idle in the pool
testPostgresConnection(pool, outcome) ==
    [success |-> outcome = Ok,
     error |-> outcome,
     pool |-> IF outcome = Ok
              THEN [pool EXCEPT !.clients = Append(@, [replica |-> FALSE])]
              ELSE pool]

\* pool.end(): a second call rejects; closing established clients may fail
endPool(pool, closeOk) ==
    IF pool.ending THEN [ok |-> FALSE, pool |-> pool]
    ELSE IF closeOk \/ pool.clients = <<>>
         THEN [ok |-> TRUE, pool |-> [pool EXCEPT !.ending = TRUE, !.clients = <<>>]]
         ELSE [ok |-> FALSE, pool |-> [pool EXCEPT !.ending = TRUE]]

----------------------------------------------------------------------------
(* core/sync-orchestrator.ts: connection validation *)

ConnectError(label) ==
    SyncError(label, "CONNECTION", "validate-connections")

\* one connection test: of a database pool, or of a Supabase API client
Attempt(label, poolIndex, pool, outcome) ==
    [label |-> label, pool |-> poolIndex, url |-> pool.url, ssl |-> pool.ssl,
     outcome |-> outcome]

ApiAttempt(label, apiOk) ==
    [label |-> label, pool |-> 0, url |-> Url("api", ""), ssl |-> FALSE,
     outcome |-> IF apiOk THEN Ok ELSE ConnError("other", {})]

\* createPoolWithSslFallback(connection, label); o1 and o2 are what the
\* server answers to the first test and to the retry.
createPoolWithSslFallback(ps, pref, att, connection, label, o1, o2) ==
    LET n  == Len(ps)
        p1 == createPostgresPool(pref, connection, FALSE)
        r1 == testPostgresConnection(p1, o1)
        a1 == Append(att, Attempt(label, n + 1, p1, o1))
    IN  IF r1.success
        THEN [ok |-> TRUE, pool |-> n + 1, pools |-> Append(ps, r1.pool),
              pref |-> pref, attempts |-> a1, err |-> NoError]
        ELSE IF includesSSL(r1.error)
        THEN LET e1    == endPool(r1.pool, TRUE).pool
                 pref2 == setSslPreference(pref, connection, FALSE)
                 p2    == createPostgresPool(pref2, connection, TRUE)
                 r2    == testPostgresConnection(p2, o2)
                 a2    == Append(a1, Attempt(label, n + 2, p2, o2))
             IN  IF r2.success
                 THEN [ok |-> TRUE, pool |-> n + 2,
                       pools |-> ps \o <<e1, r2.pool>>,
                       pref |-> pref2, attempts |-> a2, err |-> NoError]
                 ELSE [ok |-> FALSE, pool |-> 0,
                       pools |-> ps \o <<e1, endPool(r2.pool, TRUE).pool>>,
                       pref |-> pref2, attempts |-> a2,
                       err |-> ConnectError(label)]
        ELSE [ok |-> FALSE, pool |-> 0,
              pools |-> Append(ps, endPool(r1.pool, TRUE).pool),
              pref |-> pref, attempts |-> a1, err |-> ConnectError(label)]

----------------------------------------------------------------------------
(* core/sync-orchestrator.ts: the pipeline *)

Pipeline == <<"validate-connections", "sync-roles", "sync-schema", "sync-auth",
              "sync-data", "reset-sequences", "sync-storage", "verify",
              "cleanup">>

Enabled_schemaByRoles(name) ==
    CASE name = "sync-roles"      -> config.components.roles
      [] name = "sync-schema"     -> config.components.roles
      [] name = "sync-auth"       -> config.components.auth
      [] name = "sync-data"       -> config.components.data
      [] name = "reset-sequences" -> config.components.data
      [] name = "sync-storage"    -> config.components.storage
      [] OTHER                    -> TRUE

\* the if-ladder of execute()
Enabled(name) ==
    CASE name = "sync-roles"      -> config.components.roles
      [] name = "sync-schema"     -> config.components.schema
      [] name = "sync-auth"       -> config.components.auth
      [] name = "sync-data"       -> config.components.data
      [] name = "reset-sequences" -> config.components.data
      [] name = "sync-storage"    -> config.components.storage
      [] OTHER                    -> TRUE

BodyPc(name) ==
    CASE name = "validate-connections" -> "validate.source"
      [] name = "sync-roles"           -> "roles"
      [] name = "sync-schema"          -> "schema"
      [] name = "sync-auth"            -> "auth"
      [] name = "sync-data"            -> "data.export"
      [] name = "reset-sequences"      -> "sequences"
      [] name = "sync-storage"         -> "storage"
      [] name = "verify"               -> "verify"
      [] name = "cleanup"              -> "cleanup"

buildResult_stepErrors(success, error) ==
    LET wrap(e) == [kind |-> "SyncError", category |-> "UNKNOWN",
                    step |-> "orchestrator", message |-> e.message,
                    cause |-> e]
        failed == SelectSeq(stepResults, LAMBDA r : ~r.success)
    IN  [returned |-> TRUE,
         success  |-> success,
         steps    |-> stepResults,
         errors   |-> [i \in 1..Len(failed) |-> wrap(failed[i].error)]
                      \o (IF error = NoError THEN <<>> ELSE <<wrap(error)>>)]

buildResult(success, error) ==
    [returned |-> TRUE,
     success  |-> success,
     steps    |-> stepResults,
     errors   |-> IF error = NoError THEN <<>>
                  ELSE <<[kind |-> "SyncError", category |-> "UNKNOWN",
                          step |-> "orchestrator", message |-> error.message,
                          cause |-> error]>>]

runStepOk_cleanupUnrecorded ==
    /\ stepResults' = IF Pipeline[step] = "cleanup" THEN stepResults
                       ELSE Append(stepResults,
                              [name |-> Pipeline[step], success |-> TRUE,
                               error |-> NoError])
    /\ pc' = "gate"
    /\ step' = step + 1
    /\ thrown' = thrown

\* runStep's two branches: record the Step Result, then go on or rethrow
runStepOk ==
    /\ stepResults' = Append(stepResults,
          [name |-> Pipeline[step], success |-> TRUE, error |-> NoError])
    /\ pc' = "gate"
    /\ step' = step + 1
    /\ thrown' = thrown

runStepFailed_noRethrow(error) ==
    /\ stepResults' = Append(stepResults,
          [name |-> Pipeline[step], success |-> FALSE, error |-> error])
    /\ pc' = "gate"
    /\ step' = step + 1
    /\ thrown' = thrown

runStepFailed(error) ==
    /\ stepResults' = Append(stepResults,
          [name |-> Pipeline[step], success |-> FALSE, error |-> error])
    /\ pc' = "catch"
    /\ step' = step
    /\ thrown' = error

Init ==
    /\ config \in Configs
    /\ pc = "start"
    /\ step = 0
    /\ started = <<>>
    /\ stepResults = <<>>
    /\ thrown = NoError
    /\ pending = NoError
    /\ sourcePool = 0
    /\ targetPool = 0
    /\ pools = <<>>
    /\ sslPreference = [h \in Hosts |-> "unset"]
    /\ attempts = <<>>
    /\ targetOps = {}
    /\ suspended = {}
    /\ files = <<>>
    /\ dirs = <<>>
    /\ disk = {}
    /\ result = NoResult
    /\ faults = {}
    /\ auth = NoAuthRun
    /\ targetAuth = NoRows
    /\ sequences = NoSequences
    /\ seqRun = NoSeqRun
    /\ IdleUnits

\* execute(): reset the step list and initialise the temp directory
Execute ==
    /\ pc = "start"
    /\ \E mkdirOk \in BOOLEAN :
         IF mkdirOk
         THEN /\ dirs' = Append(dirs, BaseDir)
              /\ disk' = disk \cup {BaseDir}
              /\ pc' = "gate"
              /\ step' = 1
              /\ thrown' = thrown
         ELSE /\ pc' = "catch"
              /\ thrown' = PlainError("mkdir")
              /\ UNCHANGED <<dirs, disk, step>>
    /\ stepResults' = <<>>
    /\ UNCHANGED <<aux, faults, config, started, pending, sourcePool, targetPool, pools,
                   sslPreference, attempts, targetOps, suspended, files, result>>

\* runStep(name, fn) entered for an enabled step
StartStep ==
    /\ pc = "gate"
    /\ step <= Len(Pipeline)
    /\ Enabled(Pipeline[step])
    /\ started' = Append(started, Pipeline[step])
    /\ pc' = BodyPc(Pipeline[step])
    /\ UNCHANGED <<aux, faults, config, step, stepResults, thrown, pending, sourcePool,
                   targetPool, pools, sslPreference, attempts, targetOps, suspended,
                   files, dirs, disk, result>>

\* a step whose component flag is off
SkipStep ==
    /\ pc = "gate"
    /\ step <= Len(Pipeline)
    /\ ~Enabled(Pipeline[step])
    /\ step' = step + 1
    /\ UNCHANGED <<aux, faults, config, pc, started, stepResults, thrown, pending,
                   sourcePool, targetPool, pools, sslPreference, attempts,
                   targetOps, suspended, files, dirs, disk, result>>

\* validateConnections: this.sourcePool = await createPoolWithSslFallback(source)
ValidateSourceDb ==
    /\ pc = "validate.source"
    /\ \E o1, o2 \in ConnOutcomes :
         LET r == createPoolWithSslFallback(pools, sslPreference, attempts,
                     config.source, "source database", o1, o2)
         IN  /\ pools' = r.pools
             /\ sslPreference' = r.pref
             /\ attempts' = r.attempts
             /\ IF r.ok
                THEN /\ sourcePool' = r.pool
                     /\ pc' = "validate.target"
                     /\ UNCHANGED <<step, stepResults, thrown>>
                ELSE /\ sourcePool' = sourcePool
                     /\ runStepFailed(r.err)
    /\ UNCHANGED <<aux, faults, config, started, pending, targetPool, targetOps, suspended, files,
                   dirs, disk, result>>

\* validateConnections: this.targetPool = await createPoolWithSslFallback(target)
ValidateTargetDb ==
    /\ pc = "validate.target"
    /\ \E o1, o2 \in ConnOutcomes :
         LET r == createPoolWithSslFallback(pools, sslPreference, attempts,
                     config.target, "target database", o1, o2)
         IN  /\ pools' = r.pools
             /\ sslPreference' = r.pref
             /\ attempts' = r.attempts
             /\ IF r.ok
                THEN /\ targetPool' = r.pool
                     /\ pc' = "validate.api"
                     /\ UNCHANGED <<step, stepResults, thrown>>
                ELSE /\ targetPool' = targetPool
                     /\ runStepFailed(r.err)
    /\ UNCHANGED <<aux, faults, config, started, pending, sourcePool, targetOps, suspended, files,
                   dirs, disk, result>>

\* validateConnections: testSupabaseConnection on the source, then the target
ValidateApis ==
    /\ pc = "validate.api"
    /\ \E sourceApiOk, targetApiOk \in BOOLEAN :
         IF ~sourceApiOk
         THEN /\ runStepFailed(ConnectError("source Supabase API"))
              /\ attempts' = Append(attempts, ApiAttempt("source Supabase API", FALSE))
         ELSE /\ attempts' = attempts \o
                     <<ApiAttempt("source Supabase API", TRUE),
                       ApiAttempt("target Supabase API", targetApiOk)>>
              /\ IF ~targetApiOk
                 THEN runStepFailed(ConnectError("target Supabase API"))
                 ELSE runStepOk
    /\ UNCHANGED <<aux, faults, config, started, pending, sourcePool, targetPool, pools,
                   sslPreference, targetOps, suspended, files, dirs, disk,
                   result>>

----------------------------------------------------------------------------
(* Pooled clients and temp files *)

\* pool.connect(): the most recently released idle client, a new one if none
connect(pool) ==
    IF pool.clients # <<>> THEN pool
    ELSE [pool EXCEPT !.clients = <<[replica |-> FALSE]>>]

\* session_replication_role = replica on the client connect() hands out
clientReplica(pool) == connect(pool).clients[Len(connect(pool).clients)].replica

\* the pool after the checked-out client ran its statements and was released
release(pool, replica) ==
    LET p == connect(pool)
    IN  [p EXCEPT !.clients[Len(p.clients)] = [replica |-> replica]]

\* a mutating operation issued against the target through a pooled client:
\* conn names the connect() call that handed the client out, replica is the
\* session_replication_role the statement ran under
IssueOn(op, conn, replica) ==
    [op |-> op, step |-> Pipeline[step], conn |-> conn, replica |-> replica]

\* a mutating operation issued by other means (psql, the storage API)
Issue(op) == IssueOn(op, "", FALSE)

QueryError(what) == PlainError(what)

----------------------------------------------------------------------------
(* sync/database: RolesSync and SchemaSync *)

exportFatal_swallowed(exportOk) == FALSE

\* the catch block of exportRoles / exportSchema / exportData: a failed dump
\* is rethrown as a SyncError of category EXPORT
exportFatal(exportOk) == ~exportOk

applyFatal_rethrown(applyOk) == ~applyOk

\* the catch block of importRoles / importSchema / importData, and reject:
\* false: a psql run that fails is logged and nothing is thrown
applyFatal(applyOk) == FALSE

\* RolesSync.sync: exportRoles, filterRoles, importRoles (whose psql failure
\* is caught and logged)
SyncRoles ==
    /\ pc = "roles"
    /\ \E dumpFileOk, exportOk, filterFileOk, applyOk \in BOOLEAN :
         /\ faults' = IF ~dryRun(config) /\ dumpFileOk /\ ~exportOk
                       THEN faults \cup {"roles-export"}
                       ELSE IF ~dryRun(config) /\ dumpFileOk /\ filterFileOk
                               /\ ~applyOk
                       THEN faults \cup {"roles-apply"} ELSE faults
         /\ IF dryRun(config)
            THEN /\ runStepOk
                 /\ UNCHANGED <<files, disk, targetOps>>
            ELSE IF ~dumpFileOk
            THEN /\ runStepFailed(PlainError("createFile roles_dump"))
                 /\ UNCHANGED <<files, disk, targetOps>>
            ELSE IF exportFatal(exportOk)
            THEN /\ runStepFailed(SyncError("Failed to export roles", "EXPORT", "roles-export"))
                 /\ files' = Append(files, "roles_dump")
                 /\ disk' = disk \cup {"roles_dump"}
                 /\ UNCHANGED targetOps
            ELSE IF ~filterFileOk
            THEN /\ runStepFailed(PlainError("createFile roles_filtered"))
                 /\ files' = Append(files, "roles_dump")
                 /\ disk' = disk \cup {"roles_dump"}
                 /\ UNCHANGED targetOps
            ELSE /\ IF applyFatal(applyOk)
                    THEN runStepFailed(PlainError("psql roles_filtered"))
                    ELSE runStepOk
                 /\ files' = files \o <<"roles_dump", "roles_filtered">>
                 /\ disk' = disk \cup {"roles_dump", "roles_filtered"}
                 /\ targetOps' = targetOps \cup {Issue("roleApply")}
    /\ UNCHANGED <<aux, config, started, pending, sourcePool, targetPool, pools,
                   sslPreference, attempts, suspended, dirs, result>>

\* SchemaSync.sync: exportSchema, importSchema (preprocessDumpFile, then psql
\* with reject: false)
SyncSchema ==
    /\ pc = "schema"
    /\ \E dumpFileOk, exportOk, processedFileOk, applyOk \in BOOLEAN :
         /\ faults' = IF ~dryRun(config) /\ dumpFileOk /\ ~exportOk
                       THEN faults \cup {"schema-export"}
                       ELSE IF ~dryRun(config) /\ dumpFileOk /\ processedFileOk
                               /\ ~applyOk
                       THEN faults \cup {"schema-apply"} ELSE faults
         /\ IF dryRun(config)
            THEN /\ runStepOk
                 /\ UNCHANGED <<files, disk, targetOps>>
            ELSE IF ~dumpFileOk
            THEN /\ runStepFailed(PlainError("createFile schema_dump"))
                 /\ UNCHANGED <<files, disk, targetOps>>
            ELSE IF exportFatal(exportOk)
            THEN /\ runStepFailed(SyncError("Failed to export schema", "EXPORT", "schema-export"))
                 /\ files' = Append(files, "schema_dump")
                 /\ disk' = disk \cup {"schema_dump"}
                 /\ UNCHANGED targetOps
            ELSE IF ~processedFileOk
            THEN /\ runStepFailed(PlainError("createFile schema_processed"))
                 /\ files' = Append(files, "schema_dump")
                 /\ disk' = disk \cup {"schema_dump"}
                 /\ UNCHANGED targetOps
            ELSE /\ IF applyFatal(applyOk)
                    THEN runStepFailed(PlainError("psql schema_processed"))
                    ELSE runStepOk
                 /\ files' = files \o <<"schema_dump", "schema_processed">>
                 /\ disk' = disk \cup {"schema_dump", "schema_processed"}
                 /\ targetOps' = targetOps \cup {Issue("schemaApply")}
    /\ UNCHANGED <<aux, config, started, pending, sourcePool, targetPool, pools,
                   sslPreference, attempts, suspended, dirs, result>>

----------------------------------------------------------------------------
(* sync/auth/auth-sync.ts *)

\* AuthSync.sync: export, then suspend / clear / insert / restore on one
\* reserved target client; insert failures are collected, a restore failure
\* is logged, the client is released in every case
SyncAuth ==
    /\ pc = "auth"
    /\ \E exportOk \in BOOLEAN :
       IF sourcePool = 0 \/ targetPool = 0
       THEN /\ runStepFailed(PlainError("Clients not initialized"))
            /\ UNCHANGED <<pools, targetOps, suspended>>
       ELSE IF ~exportOk
       THEN /\ runStepFailed(QueryError("export auth"))
            /\ UNCHANGED <<pools, targetOps, suspended>>
       ELSE IF dryRun(config)
       THEN /\ runStepOk
            /\ UNCHANGED <<pools, targetOps, suspended>>
       ELSE \E suspendOk, clearOk, restoreOk \in BOOLEAN :
            LET before  == clientReplica(pools[targetPool])
                replica == IF restoreOk THEN FALSE
                           ELSE IF suspendOk THEN TRUE ELSE before
                ops == {Issue("suspend"), Issue("restore")}
                       \cup (IF suspendOk THEN {Issue("authTruncate")} ELSE {})
                       \cup (IF suspendOk /\ clearOk
                             THEN {Issue("authInsert")} ELSE {})
            IN  /\ pools' = [pools EXCEPT ![targetPool] = release(@, replica)]
                /\ targetOps' = targetOps \cup ops
                /\ suspended' = IF suspendOk
                                THEN suspended \cup {Pipeline[step]}
                                ELSE suspended
                /\ IF ~suspendOk THEN runStepFailed(QueryError("auth suspend"))
                   ELSE IF ~clearOk THEN runStepFailed(QueryError("auth clear"))
                   ELSE runStepOk
    /\ UNCHANGED <<aux, faults, config, started, pending, sourcePool, targetPool,
                   sslPreference, attempts, files, dirs, disk, result>>

----------------------------------------------------------------------------
(* sync/database: DataSync *)

\* DataSync.sync up to the dump: dry-run return, or exportData
DataExport ==
    /\ pc = "data.export"
    /\ \E dumpFileOk, exportOk \in BOOLEAN :
         /\ faults' = IF /\ sourcePool # 0 /\ targetPool # 0 /\ ~dryRun(config)
                          /\ dumpFileOk /\ ~exportOk
                       THEN faults \cup {"data-export"} ELSE faults
         /\ IF sourcePool = 0 \/ targetPool = 0
            THEN /\ runStepFailed(PlainError("Pools not initialized"))
                 /\ UNCHANGED <<files, disk>>
            ELSE IF dryRun(config)
            THEN /\ runStepOk
                 /\ UNCHANGED <<files, disk>>
            ELSE IF ~dumpFileOk
            THEN /\ runStepFailed(PlainError("createFile data_dump"))
                 /\ UNCHANGED <<files, disk>>
            ELSE /\ files' = Append(files, "data_dump")
                 /\ disk' = disk \cup {"data_dump"}
                 /\ IF exportFatal(exportOk)
                    THEN runStepFailed(SyncError("Failed to export data", "EXPORT", "data-export"))
                    ELSE /\ pc' = "data.disable"
                         /\ UNCHANGED <<step, stepResults, thrown>>
    /\ UNCHANGED <<aux, config, started, pending, sourcePool, targetPool, pools,
                   sslPreference, attempts, targetOps, suspended, dirs, result>>

\* DataSync.disableConstraints, called before the try block of sync():
\* SET session_replication_role = replica, then SET CONSTRAINTS ALL DEFERRED
disableConstraints(pool, replicaOk, deferOk) ==
    [threw |-> ~(replicaOk /\ deferOk),
     took  |-> replicaOk,
     pool  |-> release(pool, IF replicaOk THEN TRUE ELSE clientReplica(pool))]

DisableConstraints ==
    /\ pc = "data.disable"
    /\ \E replicaOk, deferOk \in BOOLEAN :
         LET r == disableConstraints(pools[targetPool], replicaOk, deferOk)
         IN  /\ pools' = [pools EXCEPT ![targetPool] = r.pool]
             /\ targetOps' = targetOps \cup
                    {IssueOn("suspend", "disableConstraints",
                             clientReplica(pools[targetPool]))}
             /\ suspended' = IF r.took THEN suspended \cup {Pipeline[step]}
                             ELSE suspended
             /\ IF r.threw
                THEN runStepFailed(QueryError("disableConstraints"))
                ELSE /\ pc' = "data.clear"
                     /\ UNCHANGED <<step, stepResults, thrown>>
    /\ UNCHANGED <<aux, faults, config, started, pending, sourcePool, targetPool,
                   sslPreference, attempts, files, dirs, disk, result>>

\* DataSync.clearTargetData, first statement of the try block: list the
\* tables, SET session_replication_role = replica, TRUNCATE each table
\* (a failed TRUNCATE is logged), release without resetting the role
clearTargetData_roleDefault(pool, tablesOk, replicaOk) ==
    LET before == clientReplica(pool)
        ok     == tablesOk /\ replicaOk
        role   == IF ok THEN FALSE ELSE before
    IN  [threw |-> ~ok, set |-> FALSE, truncated |-> ok, role |-> role,
         before |-> before, asked |-> tablesOk, pool |-> release(pool, role)]

clearTargetData(pool, tablesOk, replicaOk) ==
    LET before == clientReplica(pool)
        ok     == tablesOk /\ replicaOk
        role   == IF ok THEN TRUE ELSE before
    IN  [threw |-> ~ok, set |-> ok, truncated |-> ok, role |-> role,
         before |-> before, asked |-> tablesOk, pool |-> release(pool, role)]

ClearTargetData ==
    /\ pc = "data.clear"
    /\ \E tablesOk, replicaOk \in BOOLEAN :
         LET r == clearTargetData(pools[targetPool], tablesOk, replicaOk)
         IN  /\ pools' = [pools EXCEPT ![targetPool] = r.pool]
             /\ targetOps' = targetOps
                    \cup (IF r.asked
                          THEN {IssueOn("suspend", "clearTargetData", r.before)}
                          ELSE {})
                    \cup (IF r.truncated
                          THEN {IssueOn("truncate", "clearTargetData", r.role)}
                          ELSE {})
             /\ suspended' = IF r.set THEN suspended \cup {Pipeline[step]}
                             ELSE suspended
             /\ IF r.threw
                THEN /\ pc' = "data.enable"
                     /\ pending' = QueryError("clearTargetData")
                ELSE /\ pc' = "data.import"
                     /\ pending' = NoError
    /\ UNCHANGED <<aux, faults, config, step, started, stepResults, thrown, sourcePool,
                   targetPool, sslPreference, attempts, files, dirs, disk,
                   result>>

\* DataSync.importData: psql applies the dump in a session of its own; rows
\* it rejects are reported on stderr and logged, no failure leaves the method
ImportData ==
    /\ pc = "data.import"
    /\ \E rowsOk \in BOOLEAN :
         /\ faults' = IF rowsOk THEN faults ELSE faults \cup {"import-row"}
         /\ pending' = IF applyFatal(rowsOk) THEN PlainError("psql data_dump")
                        ELSE pending
    /\ targetOps' = targetOps \cup {Issue("dataApply")}
    /\ pc' = "data.enable"
    /\ UNCHANGED <<aux, config, step, started, stepResults, thrown,
                   sourcePool, targetPool, pools, sslPreference, attempts,
                   suspended, files, dirs, disk, result>>

\* DataSync.enableConstraints: SET session_replication_role = DEFAULT, then
\* SET CONSTRAINTS ALL IMMEDIATE
enableConstraints(pool, defaultOk, immediateOk) ==
    [threw |-> ~(defaultOk /\ immediateOk),
     pool  |-> release(pool, IF defaultOk THEN FALSE ELSE clientReplica(pool))]

\* the finally block of DataSync.sync
EnableConstraints ==
    /\ pc = "data.enable"
    /\ \E defaultOk, immediateOk \in BOOLEAN :
         LET r == enableConstraints(pools[targetPool], defaultOk, immediateOk)
         IN  /\ pools' = [pools EXCEPT ![targetPool] = r.pool]
             /\ targetOps' = targetOps \cup
                    {IssueOn("restore", "enableConstraints",
                             clientReplica(pools[targetPool]))}
             /\ IF r.threw
                THEN runStepFailed(QueryError("enableConstraints"))
                ELSE IF pending # NoError
                THEN runStepFailed(pending)
                ELSE /\ pc' = "data.verify"
                     /\ UNCHANGED <<step, stepResults, thrown>>
    /\ pending' = NoError
    /\ UNCHANGED <<aux, faults, config, started, sourcePool, targetPool, sslPreference,
                   attempts, suspended, files, dirs, disk, result>>

\* DataSync.verifyDataCounts(sourcePool)
VerifyDataCounts ==
    /\ pc = "data.verify"
    /\ \E tablesOk \in BOOLEAN :
         IF tablesOk THEN runStepOk
         ELSE runStepFailed(QueryError("verifyDataCounts"))
    /\ UNCHANGED <<aux, faults, config, started, pending, sourcePool, targetPool, pools,
                   sslPreference, attempts, targetOps, suspended, files, dirs,
                   disk, result>>

----------------------------------------------------------------------------
(* sync/database/sequence-sync.ts: SequenceSync and StorageSync *)

\* SequenceSync.sync: findSequences, then (unless dry-run) resetAllSequences,
\* where a failed reset is logged
ResetSequences ==
    /\ pc = "sequences"
    /\ \E findOk \in BOOLEAN :
         IF targetPool = 0
         THEN /\ runStepFailed(PlainError("Target pool not initialized"))
              /\ UNCHANGED targetOps
         ELSE IF ~findOk
         THEN /\ runStepFailed(QueryError("findSequences"))
              /\ UNCHANGED targetOps
         ELSE /\ runStepOk
              /\ targetOps' = IF ~dryRun(config)
                              THEN targetOps \cup {Issue("setval")}
                              ELSE targetOps
    /\ UNCHANGED <<aux, faults, config, started, pending, sourcePool, targetPool, pools,
                   sslPreference, attempts, suspended, files, dirs, disk,
                   result>>

\* rewriteStorageUrls: the UPDATE of auth.users and the column listing may
\* throw, the per-column UPDATEs are guarded
rewriteStorageUrls(authUpdateOk, columnsOk) ==
    IF config.sameApiUrl
    THEN [threw |-> FALSE, ops |-> {}]
    ELSE [threw |-> ~(authUpdateOk /\ columnsOk), ops |-> {Issue("rewrite")}]

\* StorageSync.sync: listBuckets, syncBucket per bucket (a bucket failure is
\* recorded and the loop goes on), rewriteStorageUrls
SyncStorage ==
    /\ pc = "storage"
    /\ \E listBucketsOk, createOk, listOk, authUpdateOk, columnsOk \in BOOLEAN :
       /\ faults' = IF /\ listBucketsOk
                        /\ \/ ~listOk
                           \/ ~dryRun(config) /\ ~createOk
                     THEN faults \cup {"bucket"} ELSE faults
       /\ IF ~listBucketsOk
         THEN /\ runStepFailed(PlainError("Failed to list buckets"))
              /\ UNCHANGED targetOps
         ELSE IF dryRun(config)
         THEN /\ IF ~listOk
                 THEN runStepFailed(PlainError("Failed to list files"))
                 ELSE runStepOk
              /\ UNCHANGED targetOps
         ELSE LET bucketOps ==
                      {Issue("createBucket")}
                      \cup (IF createOk /\ listOk THEN {Issue("upload")} ELSE {})
                  rw == IF targetPool # 0
                        THEN rewriteStorageUrls(authUpdateOk, columnsOk)
                        ELSE [threw |-> FALSE, ops |-> {}]
              IN  /\ targetOps' = targetOps \cup bucketOps \cup rw.ops
                  /\ IF rw.threw
                     THEN runStepFailed(QueryError("rewriteStorageUrls"))
                     ELSE runStepOk
    /\ UNCHANGED <<aux, config, started, pending, sourcePool, targetPool, pools,
                   sslPreference, attempts, suspended, files, dirs, disk,
                   result>>

----------------------------------------------------------------------------
(* core/sync-orchestrator.ts: verify, cleanup, result *)

\* SyncOrchestrator.verify: verifySequences when data is enabled
Verify ==
    /\ pc = "verify"
    /\ \E findOk \in BOOLEAN :
         IF targetPool # 0 /\ config.components.data /\ ~findOk
         THEN runStepFailed(QueryError("findSequences"))
         ELSE runStepOk
    /\ UNCHANGED <<aux, faults, config, started, pending, sourcePool, targetPool, pools,
                   sslPreference, attempts, targetOps, suspended, files, dirs, disk,
                   result>>

\* TempFileManager.cleanup: every failure is swallowed, both lists are reset
tempCleanup(onDisk, tracked, unlinkOk, rmOk) ==
    LET afterFiles == IF unlinkOk
                      THEN onDisk \ {tracked[i] : i \in 1..Len(tracked)}
                      ELSE onDisk
    IN  IF rmOk /\ dirs # <<>> THEN {} ELSE afterFiles

\* SyncOrchestrator.cleanup: end the source pool, end the target pool, delete
\* the temp files; a rejected end() leaves the rest undone
cleanup(srcCloseOk, tgtCloseOk, unlinkOk, rmOk) ==
    LET s   == IF sourcePool # 0 THEN endPool(pools[sourcePool], srcCloseOk)
               ELSE [ok |-> TRUE, pool |-> <<>>]
        ps1 == IF sourcePool # 0 THEN [pools EXCEPT ![sourcePool] = s.pool]
               ELSE pools
        t   == IF targetPool # 0 THEN endPool(ps1[targetPool], tgtCloseOk)
               ELSE [ok |-> TRUE, pool |-> <<>>]
        ps2 == IF targetPool # 0 THEN [ps1 EXCEPT ![targetPool] = t.pool]
               ELSE ps1
    IN  IF ~s.ok
        THEN [threw |-> TRUE, pools |-> ps1, files |-> files, dirs |-> dirs,
              disk |-> disk]
        ELSE IF ~t.ok
        THEN [threw |-> TRUE, pools |-> ps2, files |-> files, dirs |-> dirs,
              disk |-> disk]
        ELSE [threw |-> FALSE, pools |-> ps2, files |-> <<>>, dirs |-> <<>>,
              disk |-> tempCleanup(disk, files, unlinkOk, rmOk)]

\* runStep('cleanup', () => this.cleanup())
CleanupStep ==
    /\ pc = "cleanup"
    /\ \E srcCloseOk, tgtCloseOk, unlinkOk, rmOk \in BOOLEAN :
         LET c == cleanup(srcCloseOk, tgtCloseOk, unlinkOk, rmOk)
         IN  /\ pools' = c.pools
             /\ files' = c.files
             /\ dirs' = c.dirs
             /\ disk' = c.disk
             /\ IF c.threw THEN runStepFailed(PlainError("pool.end"))
                ELSE runStepOk
    /\ UNCHANGED <<aux, faults, config, started, pending, sourcePool, targetPool,
                   sslPreference, attempts, targetOps, suspended, result>>

\* execute()'s catch block: cleanup, then buildResult(false, error)
CatchCleanup ==
    /\ pc = "catch"
    /\ \E srcCloseOk, tgtCloseOk, unlinkOk, rmOk \in BOOLEAN :
         LET c == cleanup(srcCloseOk, tgtCloseOk, unlinkOk, rmOk)
         IN  /\ pools' = c.pools
             /\ files' = c.files
             /\ dirs' = c.dirs
             /\ disk' = c.disk
             /\ IF c.threw
                THEN /\ pc' = "raised"
                     /\ result' = result
                ELSE /\ pc' = "returned"
                     /\ result' = buildResult(FALSE, thrown)
    /\ UNCHANGED <<aux, faults, config, step, started, stepResults, thrown, pending,
                   sourcePool, targetPool, sslPreference, attempts, targetOps, suspended>>

\* return this.buildResult(true)
Return ==
    /\ pc = "gate"
    /\ step = Len(Pipeline) + 1
    /\ pc' = "returned"
    /\ result' = buildResult(TRUE, NoError)
    /\ UNCHANGED <<aux, faults, config, step, started, stepResults, thrown, pending,
                   sourcePool, targetPool, pools, sslPreference, attempts,
                   targetOps, suspended, files, dirs, disk>>

Next ==
    \/ Execute
    \/ StartStep
    \/ SkipStep
    \/ ValidateSourceDb
    \/ ValidateTargetDb
    \/ ValidateApis
    \/ SyncRoles
    \/ SyncSchema
    \/ SyncAuth
    \/ DataExport
    \/ DisableConstraints
    \/ ClearTargetData
    \/ ImportData
    \/ EnableConstraints
    \/ VerifyDataCounts
    \/ ResetSequences
    \/ SyncStorage
    \/ Verify
    \/ CleanupStep
    \/ CatchCleanup
    \/ Return

Spec == Init /\ [][Next]_vars

TypeOK ==
    /\ config \in Configs
    /\ pc \in {"start", "gate", "validate.source", "validate.target",
               "validate.api", "roles", "schema", "auth", "data.export",
               "data.disable", "data.clear", "data.import", "data.enable",
               "data.verify", "sequences", "storage", "verify", "cleanup",
               "catch", "returned", "raised"}
    /\ step \in 0..(Len(Pipeline) + 1)
    /\ sourcePool \in 0..Len(pools)
    /\ targetPool \in 0..Len(pools)

----------------------------------------------------------------------------
(* Properties of the orchestrator: C1 - C6 *)

FixedOrder == <<"validate-connections", "sync-roles", "sync-schema",
                "sync-auth", "sync-data", "reset-sequences", "sync-storage",
                "verify", "cleanup">>

Position(name) == CHOOSE k \in 1..Len(FixedOrder) : FixedOrder[k] = name

\* the component flag the configuration holds for a step
Flag(name) ==
    CASE name = "sync-roles"      -> config.components.roles
      [] name = "sync-schema"     -> config.components.schema
      [] name = "sync-auth"       -> config.components.auth
      [] name = "sync-data"       -> config.components.data
      [] name = "reset-sequences" -> config.components.data
      [] name = "sync-storage"    -> config.components.storage
      [] OTHER                    -> TRUE

AllEnabled ==
    /\ config.components.roles
    /\ config.components.schema
    /\ config.components.auth
    /\ config.components.data
    /\ config.components.storage

Names(rs) == [i \in 1..Len(rs) |-> rs[i].name]

AllSuccessful(rs) == \A i \in 1..Len(rs) : rs[i].success

Finished == pc \in {"returned", "raised"}

\* cleanup() ran to its end: both stored pools closed, temp lists emptied
CleanedUp ==
    /\ sourcePool # 0 => pools[sourcePool].ending
    /\ targetPool # 0 => pools[targetPool].ending
    /\ files = <<>>
    /\ dirs = <<>>

\* C1: execute() never raises. Whatever fails, a step body, the closing of a
\* pool or the deletion of temp files, in the cleanup step or in the cleanup
\* of the failure path, the call ends by returning a Run Result, and that
\* result is a failed one when something failed.
C1_ExecuteNeverRaises ==
    /\ pc # "raised"
    /\ (pc = "returned" /\ thrown # NoError) => ~result.success

\* C2: when the body of a step fails, no later step is started, cleanup runs
\* (pools closed, temp files dropped) and execute() returns a Run Result with
\* success = false whose error list carries that step's error.
C2_FailedStepAbortsAndReturns ==
    \A i \in 1..Len(stepResults) :
        ~stepResults[i].success =>
            /\ i = Len(stepResults)
            /\ Len(started) = i
            /\ started[i] = stepResults[i].name
            /\ pc \in {"catch", "returned", "raised"}
            /\ Finished =>
                 /\ pc = "returned"
                 /\ CleanedUp
                 /\ ~result.success
                 /\ Len(result.errors) = 1
                 /\ result.errors[1].cause = stepResults[i].error
                 /\ result.errors[1].message = stepResults[i].error.message

C5_DryRunMutatesNothing ==
    (config.dryRun /\ AllEnabled) =>
        /\ targetOps = {}
        /\ suspended = {}
        /\ \A k \in 1..Len(pools) :
             \A c \in 1..Len(pools[k].clients) : ~pools[k].clients[c].replica
        /\ \A i \in 1..Len(stepResults) :
             stepResults[i].name \in {"sync-roles", "sync-schema", "sync-data"}
                => stepResults[i].success

\* a dry run of all components in which every step reported success
C5_Witness ==
    /\ config.dryRun
    /\ AllEnabled
    /\ pc = "returned"
    /\ result.success
    /\ Names(result.steps) = FixedOrder
    /\ AllSuccessful(result.steps)

\* a failed connection check: a test that did not succeed and was not
\* followed by a retry of the same endpoint
FailedCheck(i) ==
    /\ attempts[i].outcome # Ok
    /\ ~(i < Len(attempts) /\ attempts[i + 1].label = attempts[i].label)

\* C6: when a connection check of validate-connections fails (source database,
\* target database, source API, target API) the run aborts at once: nothing
\* more is tested, validate-connections is recorded as failed, no other step
\* is ever started and no successful Run Result comes out of the run.
C6_ValidationFailureAborts ==
    \A i \in 1..Len(attempts) :
        FailedCheck(i) =>
            /\ i = Len(attempts)
            /\ started = <<"validate-connections">>
            /\ Len(stepResults) = 1
            /\ stepResults[1].name = "validate-connections"
            /\ ~stepResults[1].success
            /\ pc \in {"catch", "returned", "raised"}
            /\ pc = "returned" => (~result.success /\ result.errors # <<>>)

\* the last of the four checks, the target API, failed and the run returned
C6_Witness ==
    /\ pc = "returned"
    /\ attempts # <<>>
    /\ attempts[Len(attempts)].label = "target Supabase API"
    /\ FailedCheck(Len(attempts))

----------------------------------------------------------------------------
(* Properties of the connection layer: C7 - C9 *)

SameHost(u, v) == getHostFromUrl(u) = getHostFromUrl(v)

\* an attempt over SSL that failed with an SSL-class error
SslClassFailure(a) == a.ssl /\ a.outcome # Ok /\ includesSSL(a.outcome)

\* C7: an SSL attempt that fails with an SSL-class error is followed by
\* exactly one retry of the same endpoint without SSL, and from then on no
\* attempt and no pool for that host uses SSL: the no-SSL preference is kept.
C7_SslFallbackOnceAndRemembered ==
    \A i \in 1..Len(attempts) :
        SslClassFailure(attempts[i]) =>
            /\ i < Len(attempts)
            /\ attempts[i + 1].label = attempts[i].label
            /\ attempts[i + 1].url = attempts[i].url
            /\ ~attempts[i + 1].ssl
            /\ \A j \in (i + 2)..Len(attempts) :
                 attempts[j].label # attempts[i].label
            /\ \A j \in (i + 1)..Len(attempts) :
                 SameHost(attempts[j].url, attempts[i].url) => ~attempts[j].ssl
            /\ \A k \in (attempts[i].pool + 1)..Len(pools) :
                 SameHost(pools[k].url, attempts[i].url) => ~pools[k].ssl
            /\ ~shouldUseSsl(sslPreference, attempts[i].url)

\* the source fell back to no SSL and a later pool went to the same host
C7_Witness ==
    \E i \in 1..Len(attempts) :
        /\ SslClassFailure(attempts[i])
        /\ \E j \in (i + 2)..Len(attempts) :
             /\ attempts[j].label = "target database"
             /\ SameHost(attempts[j].url, attempts[i].url)
             /\ attempts[j].outcome = Ok

PreferenceValues == {"unset", "ssl", "nossl"}

\* C8: for a loopback URL SSL is never used: every pool created for it and
\* every connection test of it has SSL off, and the ssl option is off for
\* every cached preference and either value of forceNoSsl.
C8_LoopbackNeverSsl ==
    /\ \A k \in 1..Len(pools) :
         isLocalConnection(pools[k].url) => ~pools[k].ssl
    /\ \A i \in 1..Len(attempts) :
         isLocalConnection(attempts[i].url) => ~attempts[i].ssl
    /\ \A u \in Urls : isLocalConnection(u) =>
         \A v \in PreferenceValues, f \in BOOLEAN :
            LET pref == [h \in Hosts |-> v]
            IN  /\ ~useSsl(pref, u, f)
                /\ ~createPostgresPool(pref, u, f).ssl
                /\ ~shouldUseSsl(pref, u)

\* a loopback endpoint was tested twice, the second pool with forceNoSsl
C8_Witness ==
    \E k \in 1..Len(pools) :
        /\ isLocalConnection(pools[k].url)
        /\ pools[k].forceNoSsl
        /\ sslPreference[getHostFromUrl(pools[k].url)] = "nossl"

\* a failure of the listed kinds, or any failure whose message has no SSL in it
NonSslFailure(o) ==
    /\ o # Ok
    /\ \/ o.code \in {"28P01", "ENOTFOUND", "ETIMEDOUT", "ECONNREFUSED"}
       \/ "SSL" \notin o.text

\* C9: a database connection attempt that fails with a non-SSL failure
\* (authentication, host resolution, timeout, refusal) is not retried: it is
\* the last attempt made, its pool is closed and never stored, and
\* validate-connections fails with a Connection-category error for that
\* endpoint, which ends the run.
C9_NonSslFailureNotRetried ==
    \A i \in 1..Len(attempts) :
        (attempts[i].pool # 0 /\ NonSslFailure(attempts[i].outcome)) =>
            /\ i = Len(attempts)
            /\ pools[attempts[i].pool].ending
            /\ pools[attempts[i].pool].clients = <<>>
            /\ sourcePool # attempts[i].pool
            /\ targetPool # attempts[i].pool
            /\ thrown = ConnectError(attempts[i].label)
            /\ thrown.category = "CONNECTION"
            /\ stepResults = <<[name |-> "validate-connections",
                                success |-> FALSE, error |-> thrown]>>
            /\ pc \in {"catch", "returned", "raised"}

\* a refused connection whose message mentions SSL, on a first SSL attempt
C9_Witness ==
    /\ pc = "returned"
    /\ Len(attempts) = 1
    /\ attempts[1].ssl
    /\ attempts[1].outcome = ConnError("ECONNREFUSED", {"SSL"})

----------------------------------------------------------------------------
(* Properties of DataSync: C10 *)

\* C10: restoring enforcement in sync-data is a finally-style guarantee: once
\* the step has put a target session in replica mode, then however truncation
\* and load went, when the step has ended no client of the target pool is
\* still in replica mode (an end of the step caused by the restoring
\* statements themselves failing is set aside).
C10_EnforcementRestored ==
    \A i \in 1..Len(stepResults) :
        ( /\ stepResults[i].name = "sync-data"
          /\ "sync-data" \in suspended
          /\ stepResults[i].error # QueryError("enableConstraints") ) =>
            \A c \in 1..Len(pools[targetPool].clients) :
                ~pools[targetPool].clients[c].replica

\* C11: in sync-data every TRUNCATE of a target table is issued on a client
\* whose session is in replica mode at that moment: the suspension was asked
\* for on that very client, by the connect() the truncates run under, and it
\* took effect.
C11_TruncateUnderSuspension ==
    \A o \in targetOps :
        (o.op = "truncate" /\ o.step = "sync-data") =>
            /\ o.replica
            /\ "sync-data" \in suspended
            /\ \E q \in targetOps :
                 q.op = "suspend" /\ q.step = "sync-data" /\ q.conn = o.conn

\* tables were truncated in a run that got as far as the load
C11_Witness ==
    /\ pc = "data.import"
    /\ \E o \in targetOps : o.op = "truncate" /\ o.conn = "clearTargetData"

----------------------------------------------------------------------------
(* Entry states of single steps, for the data-level specifications *)

UnsetPreference == [h \in Hosts |-> "unset"]

\* a pool as validateConnections stores it: created, tested, one idle client
EstablishedPool(dbUrl) ==
    testPostgresConnection(createPostgresPool(UnsetPreference, dbUrl, FALSE),
                           Ok).pool

\* the steps runStep was entered for before the k-th of the pipeline
StartedBefore(k) ==
    SelectSeq(SubSeq(Pipeline, 1, k - 1), LAMBDA n : Enabled(n))

\* execute() has run configuration cfg without a failure up to the body of
\* the k-th step; ops, susp and tmp are what the earlier steps left behind
PipelineAt(cfg, k, ops, susp, tmp) ==
    /\ config = cfg
    /\ pc = BodyPc(Pipeline[k])
    /\ step = k
    /\ started = Append(StartedBefore(k), Pipeline[k])
    /\ stepResults = [i \in 1..Len(StartedBefore(k)) |->
                        [name |-> StartedBefore(k)[i], success |-> TRUE,
                         error |-> NoError]]
    /\ thrown = NoError
    /\ pending = NoError
    /\ sourcePool = 1
    /\ targetPool = 2
    /\ pools = <<EstablishedPool(cfg.source), EstablishedPool(cfg.target)>>
    /\ sslPreference = UnsetPreference
    /\ attempts = <<Attempt("source database", 1, EstablishedPool(cfg.source), Ok),
                    Attempt("target database", 2, EstablishedPool(cfg.target), Ok),
                    ApiAttempt("source Supabase API", TRUE),
                    ApiAttempt("target Supabase API", TRUE)>>
    /\ targetOps = ops
    /\ suspended = susp
    /\ files = tmp
    /\ dirs = <<BaseDir>>
    /\ disk = {BaseDir} \cup {tmp[i] : i \in 1..Len(tmp)}
    /\ result = NoResult
    /\ faults = {}

pipelineVars == <<config, pc, step, started, stepResults, thrown, pending,
                  sourcePool, targetPool, pools, sslPreference, attempts,
                  targetOps, suspended, files, dirs, disk, result, faults>>

----------------------------------------------------------------------------
(* sync/database/sequence-sync.ts: SequenceSync on the sequences' values *)

NumSequences == 2

MaxPasses == 2

\* The integer hi * 2^53 + lo, with lo small: the values below 2^53 and the
\* first ones above it, where a JavaScript number stops being exact.
Num(hi, lo) == [hi |-> hi, lo |-> lo]

NumLess(a, b) == a.hi < b.hi \/ (a.hi = b.hi /\ a.lo < b.lo)

NumSucc(a) == Num(a.hi, a.lo + 1)

\* parseInt(text, 10): the double nearest to the integer the text spells.
\* From 2^53 on only even integers are doubles; a tie goes to the even
\* mantissa, a multiple of 4 here.
parseInt(n) ==
    IF n.hi = 0 \/ n.lo % 2 = 0 THEN n
    ELSE IF (n.lo + 1) % 4 = 0 THEN Num(1, n.lo + 1)
    ELSE Num(1, n.lo - 1)

\* what an owning column can hold: no row, or rows with this maximum
Column(empty, max) == [empty |-> empty, max |-> max]

Columns ==
    {Column(TRUE, Num(0, 0))} \cup
    {Column(FALSE, m) : m \in {Num(0, -2), Num(0, 0), Num(0, 3),
                               Num(1, 1), Num(1, 2)}}

\* a sequence as CREATE SEQUENCE leaves it
FreshSequence(column) ==
    [column |-> column, last_value |-> Num(0, 1), is_called |-> FALSE]

\* the value the next nextval() returns (increment 1)
nextval(seq) == IF seq.is_called THEN NumSucc(seq.last_value) ELSE seq.last_value

\* SELECT COALESCE(MAX(col), 0) as max_val, as the driver hands it over
maxQuery(seq) == IF seq.column.empty THEN Num(0, 0) ELSE seq.column.max

resetSequence_bump(seq, maxOk, setvalOk) ==
    LET maxVal == parseInt(maxQuery(seq))
        newValue == IF NumLess(seq.last_value, maxVal) THEN maxVal
                    ELSE NumSucc(seq.last_value)
    IN  IF maxOk /\ setvalOk
        THEN [threw |-> FALSE,
              seq |-> [seq EXCEPT !.last_value = newValue, !.is_called = TRUE]]
        ELSE [threw |-> TRUE, seq |-> seq]

\* SequenceSync.resetSequence: read the maximum, setval(newValue, isCalled)
resetSequence(seq, maxOk, setvalOk) ==
    LET maxVal   == parseInt(maxQuery(seq))
        positive == NumLess(Num(0, 0), maxVal)
        newValue == IF positive THEN maxVal ELSE Num(0, 1)
        isCalled == positive
    IN  IF maxOk /\ setvalOk
        THEN [threw |-> FALSE,
              seq |-> [seq EXCEPT !.last_value = newValue,
                                  !.is_called = isCalled]]
        ELSE [threw |-> TRUE, seq |-> seq]

\* only Data Transfer and Sequence Reconciliation are switched on
DataOnlyConfig ==
    [components |-> [roles |-> FALSE, schema |-> FALSE, auth |-> FALSE,
                     data |-> TRUE, storage |-> FALSE],
     dryRun |-> FALSE, source |-> Url("db.a", ""), target |-> Url("db.b", ""),
     sameApiUrl |-> FALSE, migrateIdentities |-> TRUE]

\* what a successful sync-data leaves in targetOps
DataOps ==
    { [op |-> "suspend", step |-> "sync-data", conn |-> "disableConstraints",
       replica |-> FALSE],
      [op |-> "suspend", step |-> "sync-data", conn |-> "clearTargetData",
       replica |-> TRUE],
      [op |-> "truncate", step |-> "sync-data", conn |-> "clearTargetData",
       replica |-> TRUE],
      [op |-> "dataApply", step |-> "sync-data", conn |-> "", replica |-> FALSE],
      [op |-> "restore", step |-> "sync-data", conn |-> "enableConstraints",
       replica |-> TRUE] }

\* reset-sequences is entered after a successful sync-data; the target holds
\* NumSequences fresh sequences over columns of any content
SeqInit ==
    /\ PipelineAt(DataOnlyConfig, 6, DataOps, {"sync-data"}, <<"data_dump">>)
    /\ auth = NoAuthRun
    /\ targetAuth = NoRows
    /\ IdleUnits
    /\ sequences \in [1..NumSequences -> {FreshSequence(c) : c \in Columns}]
    /\ seqRun = [running |-> TRUE, phase |-> "find", passes |-> 0, next |-> 1,
                 reset |-> {}, failed |-> {}, threw |-> FALSE,
                 once |-> <<>>, onceReset |-> {}]

\* resetAllSequences: const sequences = await this.findSequences()
SeqFindSequences ==
    /\ seqRun.running
    /\ seqRun.phase = "find"
    /\ seqRun.passes < MaxPasses
    /\ \E findOk \in BOOLEAN :
         seqRun' = IF findOk
                   THEN [seqRun EXCEPT !.phase = "loop", !.next = 1,
                                       !.reset = {}, !.failed = {},
                                       !.threw = FALSE]
                   ELSE [seqRun EXCEPT !.passes = @ + 1, !.threw = TRUE,
                                       !.reset = {}, !.failed = {}]
    /\ UNCHANGED <<pipelineVars, auth, targetAuth, sequences, units>>

\* resetAllSequences: one turn of the loop, a failed reset is logged; after
\* the last turn the method returns its results
SeqResetSequence ==
    /\ seqRun.running
    /\ seqRun.phase = "loop"
    /\ \E maxOk, setvalOk \in BOOLEAN :
         LET i    == seqRun.next
             r    == resetSequence(sequences[i], maxOk, setvalOk)
             last == i = NumSequences
             rs   == IF r.threw THEN seqRun.reset ELSE seqRun.reset \cup {i}
             fs   == IF r.threw THEN seqRun.failed \cup {i} ELSE seqRun.failed
             first == seqRun.passes = 0
         IN  /\ sequences' = [sequences EXCEPT ![i] = r.seq]
             /\ seqRun' = [seqRun EXCEPT
                   !.next = i + 1,
                   !.reset = rs,
                   !.failed = fs,
                   !.phase = IF last THEN "find" ELSE "loop",
                   !.passes = IF last THEN @ + 1 ELSE @,
                   !.once = IF last /\ first THEN sequences' ELSE @,
                   !.onceReset = IF last /\ first THEN rs ELSE @]
    /\ UNCHANGED <<pipelineVars, auth, targetAuth, units>>

SeqNext ==
    \/ SeqFindSequences
    \/ SeqResetSequence

SeqSpec == SeqInit /\ [][SeqNext]_vars

\* a pass of resetAllSequences has just returned
PassReturned ==
    seqRun.running /\ seqRun.phase = "find" /\ seqRun.passes > 0 /\ ~seqRun.threw

\* C12: when sync-data has succeeded and reset-sequences has run, the next
\* value of every sequence is strictly greater than the maximum its owning
\* column holds (1 or more when the column is empty).
C12_NextValueAboveMaximum ==
    PassReturned =>
        \A i \in 1..NumSequences :
            /\ ~sequences[i].column.empty =>
                 NumLess(sequences[i].column.max, nextval(sequences[i]))
            /\ NumLess(Num(0, 0), nextval(sequences[i]))

\* C13: reconciliation is idempotent: every later pass over unchanged data
\* leaves each sequence the first pass reset with the (last_value, is_called)
\* the first pass gave it.
C13_ResetIdempotent ==
    (seqRun.running /\ seqRun.passes >= 1) =>
        \A i \in seqRun.onceReset :
            /\ sequences[i].last_value = seqRun.once[i].last_value
            /\ sequences[i].is_called = seqRun.once[i].is_called

\* two full passes, every reset of both succeeded, over a column that holds
\* rows and one that is empty
C13_Witness ==
    /\ seqRun.running
    /\ seqRun.passes = 2
    /\ seqRun.phase = "find"
    /\ seqRun.onceReset = 1..NumSequences
    /\ seqRun.reset = 1..NumSequences
    /\ \E i \in 1..NumSequences : sequences[i].is_called
    /\ \E i \in 1..NumSequences : sequences[i].column.empty

----------------------------------------------------------------------------
(* Properties of the dumps: C14, C15 (specification Spec) *)

\* C14: a run whose data dump holds a row the target rejects returns a Run
\* Result in which sync-data is a success and the row's error is an entry of
\* the error list.
C14_RowErrorCaptured ==
    (pc = "returned" /\ "import-row" \in faults /\ result.success) =>
        /\ \E i \in 1..Len(result.steps) :
             result.steps[i].name = "sync-data" /\ result.steps[i].success
        /\ result.errors # <<>>

\* the dump of step name failed: the step is the last one entered and the last
\* one recorded, as a failure of category EXPORT, and the run is on its way out
ExportAborts(fault, name) ==
    fault \in faults =>
        /\ started # <<>>
        /\ started[Len(started)] = name
        /\ Len(stepResults) = Len(started)
        /\ stepResults[Len(stepResults)].name = name
        /\ ~stepResults[Len(stepResults)].success
        /\ stepResults[Len(stepResults)].error.category = "EXPORT"
        /\ stepResults[Len(stepResults)].error.step = fault
        /\ pc \in {"catch", "returned", "raised"}
        /\ pc = "returned" => (~result.success /\ result.errors # <<>>)

\* C15: a dump that cannot be generated, in sync-roles, sync-schema or
\* sync-data, is fatal: the step is recorded as failed, no later step is
\* started and the run ends without a successful Run Result.
C15_ExportFailureFatal ==
    /\ ExportAborts("roles-export", "sync-roles")
    /\ ExportAborts("schema-export", "sync-schema")
    /\ ExportAborts("data-export", "sync-data")

\* the data dump failed after roles and schema went through, and the run
\* returned
C15_Witness ==
    /\ pc = "returned"
    /\ "data-export" \in faults
    /\ Len(stepResults) > 2
    /\ ~result.success

----------------------------------------------------------------------------
(* sync/auth/auth-sync.ts: AuthSync on the records of auth.users and
   auth.identities *)

MaxRuns == 2

\* a row of auth.users: the key, a column the upsert overwrites, the
\* credential hash, and a column the upsert leaves alone on a conflict
User(id, email, hash, created) ==
    [id |-> id, email |-> email, encrypted_password |-> hash,
     created_at |-> created]

\* a row of auth.identities: identity_data is overwritten on a conflict,
\* user_id and provider are not
Identity(id, userId, data, provider) ==
    [id |-> id, user_id |-> userId, identity_data |-> data,
     provider |-> provider]

\* what the source can hold, in ORDER BY created_at order
SourceUsers ==
    { <<>>, <<User("u1", "a@x", "h1", 1)>>,
      <<User("u1", "a@x", "h1", 1), User("u2", "", "h2", 2)>> }

SourceIdentities == { <<>>, <<Identity("i1", "u1", "d1", "email")>> }

\* what the target can hold before the transfer: nothing, or rows under the
\* keys of the source with other content
TargetRows ==
    { NoRows,
      [users |-> {User("u1", "old@x", "h0", 0)},
       identities |-> {Identity("i1", "u9", "d0", "github")}] }

\* only Auth Identity Transfer is switched on
AuthConfigs ==
    { [components |-> [roles |-> FALSE, schema |-> FALSE, auth |-> TRUE,
                       data |-> FALSE, storage |-> FALSE],
       dryRun |-> d, source |-> Url("db.a", ""), target |-> Url("db.b", ""),
       sameApiUrl |-> FALSE, migrateIdentities |-> m] : d, m \in BOOLEAN }

\* the locals of one AuthSync.sync call, before its first statement
AuthLocals ==
    [phase |-> "export", users |-> <<>>, identities |-> <<>>,
     held |-> FALSE, replica |-> FALSE, usersImported |-> 0,
     identitiesImported |-> 0, errors |-> <<>>, next |-> 1,
     attempted |-> <<>>, reserves |-> 0, restores |-> 0, releases |-> 0,
     error |-> ""]

\* sync-auth is entered with both pools established; the source holds some
\* users and identities, the target some rows of its own
AuthInit ==
    /\ \E cfg \in AuthConfigs : PipelineAt(cfg, 4, {}, {}, <<>>)
    /\ sequences = NoSequences
    /\ seqRun = NoSeqRun
    /\ IdleUnits
    /\ targetAuth \in TargetRows
    /\ \E us \in SourceUsers, ids \in SourceIdentities :
         auth = [running |-> TRUE, source |-> [users |-> us, identities |-> ids],
                 runs |-> 0, outcome |-> "none",
                 result |-> [usersImported |-> 0, identitiesImported |-> 0,
                             errors |-> <<>>],
                 sync |-> AuthLocals]

authFrame == <<config, pc, step, started, stepResults, thrown, pending,
               sourcePool, targetPool, sslPreference, attempts, files, dirs,
               disk, result, faults, sequences, seqRun, units>>

\* sync() is left: by its return statement, or by the error in flight
leave(a) ==
    [a EXCEPT !.runs = @ + 1,
              !.outcome = IF a.sync.error = "" THEN "returned" ELSE "threw",
              !.result = [usersImported |-> a.sync.usersImported,
                          identitiesImported |-> a.sync.identitiesImported,
                          errors |-> a.sync.errors],
              !.sync.phase = "done"]

\* the phase that follows the clearing, and the one that follows the users
afterClear(l) ==
    IF l.users # <<>> THEN "users"
    ELSE IF l.identities # <<>> THEN "identities" ELSE "finally"

afterUsers(l) == IF l.identities # <<>> THEN "identities" ELSE "finally"

onThrow_noFinally(a, message) ==
    [a EXCEPT !.runs = @ + 1, !.outcome = "threw", !.sync.error = message,
              !.sync.phase = "done"]

\* a statement of the try block threw: control goes to the finally block
onThrow(a, message) ==
    [a EXCEPT !.sync.error = message, !.sync.phase = "finally"]

recordFailure_silent(l, id) == l

\* the catch blocks of the two loops: errors.push(msg)
recordFailure(l, id) == [l EXCEPT !.errors = Append(@, id)]

\* the connection the two TRUNCATE statements are sent on
clearTargetAuthWithClient_pooled(l) ==
    [conn |-> "clearTargetAuth", replica |-> FALSE]

clearTargetAuthWithClient(l) == [conn |-> "sync", replica |-> l.replica]

importUserViaSqlWithClient_keepHash(table, user) ==
    IF \E r \in table : r.id = user.id
    THEN {IF r.id = user.id THEN [r EXCEPT !.email = user.email] ELSE r :
              r \in table}
    ELSE table \cup {user}

\* INSERT INTO auth.users ... ON CONFLICT (id) DO UPDATE SET ...
importUserViaSqlWithClient(table, user) ==
    IF \E r \in table : r.id = user.id
    THEN {IF r.id = user.id
          THEN [r EXCEPT !.email = user.email,
                         !.encrypted_password = user.encrypted_password]
          ELSE r : r \in table}
    ELSE table \cup {user}

\* INSERT INTO auth.identities ... ON CONFLICT (id) DO UPDATE SET ...
importIdentityWithClient(table, identity) ==
    IF \E r \in table : r.id = identity.id
    THEN {IF r.id = identity.id
          THEN [r EXCEPT !.identity_data = identity.identity_data]
          ELSE r : r \in table}
    ELSE table \cup {identity}

\* sync() up to the reservation: the dry-run return, or the two exports
AuthExport ==
    /\ auth.running
    /\ auth.sync.phase \in {"export", "done"}
    /\ auth.runs < MaxRuns
    /\ \E usersOk, identitiesOk \in BOOLEAN :
         LET l == AuthLocals
             a == [auth EXCEPT !.sync = l] IN
         IF ~usersOk
         THEN auth' = leave([a EXCEPT !.sync.error = "exportUsers"])
         ELSE IF dryRun(config)
         THEN IF identitiesOk
              THEN auth' = leave([a EXCEPT
                        !.sync.usersImported = Len(auth.source.users),
                        !.sync.identitiesImported = Len(auth.source.identities)])
              ELSE auth' = leave([a EXCEPT !.sync.error = "exportIdentities"])
         ELSE IF config.migrateIdentities /\ ~identitiesOk
         THEN auth' = leave([a EXCEPT !.sync.error = "exportIdentities"])
         ELSE auth' = [a EXCEPT
                 !.sync.phase = "reserve",
                 !.sync.users = auth.source.users,
                 !.sync.identities = IF config.migrateIdentities
                                     THEN auth.source.identities ELSE <<>>]
    /\ UNCHANGED <<authFrame, pools, targetOps, suspended, targetAuth>>

\* const client = await this.targetPool.connect()
AuthReserve ==
    /\ auth.running
    /\ auth.sync.phase = "reserve"
    /\ \E connectOk \in BOOLEAN :
         IF connectOk
         THEN /\ auth' = [auth EXCEPT
                   !.sync.phase = "suspend",
                   !.sync.held = TRUE,
                   !.sync.replica = clientReplica(pools[targetPool]),
                   !.sync.reserves = @ + 1]
              /\ pools' = [pools EXCEPT ![targetPool] = connect(@)]
         ELSE /\ auth' = leave([auth EXCEPT !.sync.error = "connect"])
              /\ UNCHANGED pools
    /\ UNCHANGED <<authFrame, targetOps, suspended, targetAuth>>

\* await client.query('SET session_replication_role = replica;')
AuthSuspend ==
    /\ auth.running
    /\ auth.sync.phase = "suspend"
    /\ targetOps' = targetOps \cup {IssueOn("suspend", "sync", auth.sync.replica)}
    /\ \E suspendOk \in BOOLEAN :
         IF suspendOk
         THEN /\ auth' = [auth EXCEPT !.sync.replica = TRUE,
                                      !.sync.phase = "clear"]
              /\ suspended' = suspended \cup {Pipeline[step]}
         ELSE /\ auth' = onThrow(auth, "suspend")
              /\ UNCHANGED suspended
    /\ UNCHANGED <<authFrame, pools, targetAuth>>

\* await this.clearTargetAuthWithClient(client)
AuthClear ==
    /\ auth.running
    /\ auth.sync.phase = "clear"
    /\ \E identitiesOk, usersOk \in BOOLEAN :
         LET c == clearTargetAuthWithClient(auth.sync) IN
         /\ targetOps' = targetOps \cup {IssueOn("authTruncate", c.conn, c.replica)}
         /\ targetAuth' =
              [users |-> IF identitiesOk /\ usersOk THEN {} ELSE targetAuth.users,
               identities |-> IF identitiesOk THEN {} ELSE targetAuth.identities]
         /\ auth' = IF identitiesOk /\ usersOk
                    THEN [auth EXCEPT !.sync.phase = afterClear(auth.sync),
                                      !.sync.next = 1]
                    ELSE onThrow(auth, "clear")
    /\ UNCHANGED <<authFrame, pools, suspended>>

\* one turn of the loop over users
AuthImportUser ==
    /\ auth.running
    /\ auth.sync.phase = "users"
    /\ \E insertOk \in BOOLEAN :
         LET l    == auth.sync
             user == l.users[l.next]
             last == l.next = Len(l.users)
             l1   == [l EXCEPT !.next = IF last THEN 1 ELSE @ + 1,
                               !.attempted = Append(@, user.id),
                               !.phase = IF last THEN afterUsers(l) ELSE @]
         IN  /\ targetOps' = targetOps \cup
                    {IssueOn("authInsertUser", "sync", l.replica)}
             /\ IF insertOk
                THEN /\ targetAuth' = [targetAuth EXCEPT !.users =
                            importUserViaSqlWithClient(@, user)]
                     /\ auth' = [auth EXCEPT !.sync =
                            [l1 EXCEPT !.usersImported = @ + 1]]
                ELSE /\ UNCHANGED targetAuth
                     /\ auth' = [auth EXCEPT !.sync = recordFailure(l1, user.id)]
    /\ UNCHANGED <<authFrame, pools, suspended>>

\* one turn of the loop over identities
AuthImportIdentity ==
    /\ auth.running
    /\ auth.sync.phase = "identities"
    /\ \E insertOk \in BOOLEAN :
         LET l        == auth.sync
             identity == l.identities[l.next]
             last     == l.next = Len(l.identities)
             l1       == [l EXCEPT !.next = IF last THEN 1 ELSE @ + 1,
                                   !.attempted = Append(@, identity.id),
                                   !.phase = IF last THEN "finally" ELSE @]
         IN  /\ targetOps' = targetOps \cup
                    {IssueOn("authInsertIdentity", "sync", l.replica)}
             /\ IF insertOk
                THEN /\ targetAuth' = [targetAuth EXCEPT !.identities =
                            importIdentityWithClient(@, identity)]
                     /\ auth' = [auth EXCEPT !.sync =
                            [l1 EXCEPT !.identitiesImported = @ + 1]]
                ELSE /\ UNCHANGED targetAuth
                     /\ auth' = [auth EXCEPT !.sync =
                            recordFailure(l1, identity.id)]
    /\ UNCHANGED <<authFrame, pools, suspended>>

\* the finally block: SET session_replication_role = DEFAULT, whose failure
\* is logged, then client.release(); after it sync() returns or rethrows
AuthFinally ==
    /\ auth.running
    /\ auth.sync.phase = "finally"
    /\ \E restoreOk \in BOOLEAN :
         LET l       == auth.sync
             replica == IF restoreOk THEN FALSE ELSE l.replica
         IN  /\ targetOps' = targetOps \cup {IssueOn("restore", "sync", l.replica)}
             /\ pools' = [pools EXCEPT ![targetPool] = release(@, replica)]
             /\ auth' = leave([auth EXCEPT !.sync.restores = @ + 1,
                                           !.sync.releases = @ + 1,
                                           !.sync.replica = replica,
                                           !.sync.held = FALSE])
    /\ UNCHANGED <<authFrame, suspended, targetAuth>>

AuthNext ==
    \/ AuthExport
    \/ AuthReserve
    \/ AuthSuspend
    \/ AuthClear
    \/ AuthImportUser
    \/ AuthImportIdentity
    \/ AuthFinally

AuthSpec == AuthInit /\ [][AuthNext]_vars

----------------------------------------------------------------------------
(* Properties of Auth Identity Transfer: C16 - C20 (specification AuthSpec) *)

\* the mutating statements sync-auth has sent to the target
AuthOps == {o \in targetOps : o.step = "sync-auth"}

\* a call of sync() is over
AuthDone == auth.running /\ auth.sync.phase = "done"

\* C16: in a run that is not a dry run, suspension, clearing, every insert of
\* a user or an identity and restoration are all sent on the one client that
\* sync() reserved: a call reserves at most one client, no statement runs on
\* a client got elsewhere, and clearing and inserts run in replica mode.
C16_SingleReservedConnection ==
    auth.running =>
        /\ auth.sync.reserves <= 1
        /\ \A o \in AuthOps :
             /\ o.conn = "sync"
             /\ o.op \in {"authTruncate", "authInsertUser", "authInsertIdentity"}
                  => o.replica
        /\ config.dryRun => AuthOps = {}

\* a call that sent all five kinds of statement has returned
C16_Witness ==
    /\ AuthDone
    /\ auth.outcome = "returned"
    /\ {o.op : o \in AuthOps} =
          {"suspend", "authTruncate", "authInsertUser", "authInsertIdentity",
           "restore"}

\* C17: when the restoration at the end of sync-auth fails the reserved client
\* does not go back to the target pool, so whenever sync() holds no client
\* the pool has no client in replica mode to hand out.
C17_FailedRestoreDiscards ==
    (auth.running /\ ~auth.sync.held) =>
        \A i \in 1..Len(pools[targetPool].clients) :
            ~pools[targetPool].clients[i].replica

\* C18: once sync() has reserved its client, however the call ends (return,
\* failures of single records, failure of suspension or of clearing),
\* restoration was attempted on that client and the client was released
\* exactly once; before the end it was not released.
C18_RestoreAndReleaseOnce ==
    (auth.running /\ auth.sync.reserves = 1) =>
        /\ auth.sync.releases <= 1
        /\ auth.sync.held <=> auth.sync.releases = 0
        /\ AuthDone =>
             /\ auth.sync.restores = 1
             /\ auth.sync.releases = 1
             /\ \E o \in AuthOps : o.op = "restore" /\ o.conn = "sync"

\* the clearing failed, and the call ended with one restoration and one
\* release
C18_Witness ==
    /\ AuthDone
    /\ auth.outcome = "threw"
    /\ auth.sync.error = "clear"
    /\ auth.sync.releases = 1

\* the keys of a list of records, in order
Ids(records) == [i \in 1..Len(records) |-> records[i].id]

\* C19: a record that fails does not end the batch: when sync() returns from
\* a run that is not a dry run every exported user and identity was attempted
\* once, in order, each failure is one entry of the error list, and
\* usersImported + identitiesImported + errors = users + identities.
C19_BatchNeverAborted ==
    (AuthDone /\ auth.outcome = "returned" /\ ~config.dryRun) =>
        /\ auth.sync.attempted = Ids(auth.sync.users) \o Ids(auth.sync.identities)
        /\ auth.result.usersImported + auth.result.identitiesImported
             + Len(auth.result.errors)
           = Len(auth.sync.users) + Len(auth.sync.identities)
        /\ auth.result.usersImported <= Len(auth.sync.users)
        /\ auth.result.identitiesImported <= Len(auth.sync.identities)

\* the first user failed, the second user and the identity went in
C19_Witness ==
    /\ AuthDone
    /\ auth.outcome = "returned"
    /\ auth.result.errors = <<"u1">>
    /\ auth.result.usersImported = 1
    /\ auth.result.identitiesImported = 1

RECURSIVE ImportUsers(_, _)
\* the users of a list imported one after the other into a table
ImportUsers(table, users) ==
    IF users = <<>> THEN table
    ELSE ImportUsers(importUserViaSqlWithClient(table, Head(users)), Tail(users))

RECURSIVE ImportIdentities(_, _)
\* the identities of a list imported one after the other into a table
ImportIdentities(table, identities) ==
    IF identities = <<>> THEN table
    ELSE ImportIdentities(importIdentityWithClient(table, Head(identities)),
                          Tail(identities))

\* every user of the list has a row in the table with the user's hash
HashesOf(table, users) ==
    \A k \in 1..Len(users) :
        \E r \in table :
            /\ r.id = users[k].id
            /\ r.encrypted_password = users[k].encrypted_password

\* C20: importing the source's users and identities into the target a second
\* time leaves the rows the first import gave, and every row carries the
\* encrypted_password of its source user: for the inserts applied to whatever
\* the target holds, and for whole calls of sync(), after each of which the
\* target holds the source's rows.
C20_ImportIdempotent ==
    auth.running =>
        LET us   == auth.source.users
            ids  == auth.source.identities
            once == ImportUsers(targetAuth.users, us)
            onceIds == ImportIdentities(targetAuth.identities, ids)
        IN  /\ ImportUsers(once, us) = once
            /\ HashesOf(once, us)
            /\ ImportIdentities(onceIds, ids) = onceIds
            /\ (AuthDone /\ auth.outcome = "returned" /\ ~config.dryRun
                  /\ auth.result.errors = <<>>) =>
                 /\ targetAuth.users = {us[k] : k \in 1..Len(us)}
                 /\ targetAuth.identities =
                       {auth.sync.identities[k] :
                           k \in 1..Len(auth.sync.identities)}
                 /\ HashesOf(targetAuth.users, us)

\* the second call of sync() returned without an error, two users and an
\* identity are in the target
C20_Witness ==
    /\ AuthDone
    /\ auth.runs = 2
    /\ auth.outcome = "returned"
    /\ auth.result.errors = <<>>
    /\ auth.result.usersImported = 2
    /\ auth.result.identitiesImported = 1
    /\ Cardinality(targetAuth.users) = 2

----------------------------------------------------------------------------
(* index.ts: RolesSync.filterRoles on the lines of a roles dump *)

MaxLines == 3

\* Built-in Supabase roles that should not be recreated
SYSTEM_ROLES ==
    {"postgres", "supabase_admin", "supabase_auth_admin",
     "supabase_storage_admin", "supabase_realtime_admin",
     "supabase_replication_admin", "supabase_read_only_user", "authenticator",
     "anon", "authenticated", "service_role", "dashboard_user", "pgbouncer",
     "pgsodium_keyholder", "pgsodium_keyiduser", "pgsodium_keymaker"}

\* a role name as the text head followed by the text tail
Name(head, tail) == [head |-> head, tail |-> tail]

NoName == Name("", "")

\* the role names of a dump: a reserved one, a custom one, and a custom one
\* whose text begins with that of a reserved one
DumpNames == {Name("postgres", ""), Name("myapp", ""), Name("anon", "_reader")}

\* A line of the dump, by what the filter can tell of it: whether CREATE ROLE
\* or ALTER ROLE stands on it, the role name on it (after the keyword when
\* there is one, at its start otherwise), and whether its last character,
\* blanks aside, is the semicolon.  A line with neither keyword nor name
\* holds options of a statement only.
Line(kw, name, ends) == [kw |-> kw, name |-> name, ends |-> ends]

Lines ==
    {Line(kw, name, ends) :
        kw \in BOOLEAN, name \in DumpNames \cup {NoName}, ends \in BOOLEAN}

\* the words of a line, left to right
Tok(kind, name) == [kind |-> kind, name |-> name]

LineTokens(l) ==
    (IF l.kw THEN <<Tok("kw", NoName)>> ELSE <<>>)
    \o (IF l.name # NoName THEN <<Tok("name", l.name)>> ELSE <<>>)
    \o (IF ~l.kw /\ l.name = NoName THEN <<Tok("opt", NoName)>> ELSE <<>>)
    \o (IF l.ends THEN <<Tok("end", NoName)>> ELSE <<>>)

RECURSIVE Tokens(_)
\* the words of a script
Tokens(lines) ==
    IF lines = <<>> THEN <<>>
    ELSE LineTokens(Head(lines)) \o Tokens(Tail(lines))

RECURSIVE Split(_, _, _)
Split(toks, cur, acc) ==
    IF toks = <<>> THEN (IF cur = <<>> THEN acc ELSE Append(acc, cur))
    ELSE IF Head(toks).kind = "end"
    THEN Split(Tail(toks), <<>>, Append(acc, Append(cur, Head(toks))))
    ELSE Split(Tail(toks), Append(cur, Head(toks)), acc)

\* the statements of a script: its words up to each semicolon
Statements(lines) == Split(Tokens(lines), <<>>, <<>>)

\* CREATE ROLE / ALTER ROLE, a name, options, a semicolon
RoleStatement(st) ==
    /\ Len(st) >= 3
    /\ st[1].kind = "kw"
    /\ st[2].kind = "name"
    /\ st[Len(st)].kind = "end"
    /\ \A i \in 3..(Len(st) - 1) : st[i].kind = "opt"

\* what pg_dumpall --roles-only can write, in any line layout: role
\* statements one after the other
Dumps ==
    {d \in UNION {[1..n -> Lines] : n \in 1..MaxLines} :
        \A i \in 1..Len(Statements(d)) : RoleStatement(Statements(d)[i])}

\* new RegExp(`(CREATE ROLE|ALTER ROLE)\\s+["']?${role}["']?`, 'i').test(line):
\* keyword and role text on the one line, whatever follows the role text
rolePattern(role, line) == line.kw /\ line.name.head = role

isSystemRole(line) == \E role \in SYSTEM_ROLES : rolePattern(role, line)

\* one turn of the loop of filterRoles over the lines
filterLine(run, line) ==
    IF isSystemRole(line)
    THEN [run EXCEPT !.skipBlock = TRUE]
    ELSE IF run.skipBlock /\ line.ends
    THEN [run EXCEPT !.skipBlock = FALSE]
    ELSE IF ~run.skipBlock
    THEN [run EXCEPT !.filteredLines = Append(@, line)]
    ELSE run

\* only Roles Transfer is switched on
RolesOnlyConfig ==
    [components |-> [roles |-> TRUE, schema |-> FALSE, auth |-> FALSE,
                     data |-> FALSE, storage |-> FALSE],
     dryRun |-> FALSE, source |-> Url("db.a", ""), target |-> Url("db.b", ""),
     sameApiUrl |-> FALSE, migrateIdentities |-> TRUE]

\* sync-roles has exported the dump and filterRoles has read and split it
RolesInit ==
    /\ PipelineAt(RolesOnlyConfig, 2, {}, {}, <<"roles_dump">>)
    /\ auth = NoAuthRun
    /\ targetAuth = NoRows
    /\ sequences = NoSequences
    /\ seqRun = NoSeqRun
    /\ storageRun = NoRun
    /\ cliRun = NoRun
    /\ dataRun = NoRun
    /\ retryRun = NoRun
    /\ \E d \in Dumps :
         roleRun = [running |-> TRUE, lines |-> d, next |-> 1,
                    skipBlock |-> FALSE, filteredLines |-> <<>>,
                    written |-> <<>>, done |-> FALSE]

rolesFrame == <<pipelineVars, auth, targetAuth, sequences, seqRun, storageRun,
                cliRun, dataRun,
                  retryRun>>

\* for (const line of lines) { ... }
FilterLine ==
    /\ roleRun.running
    /\ ~roleRun.done
    /\ roleRun.next <= Len(roleRun.lines)
    /\ roleRun' = [filterLine(roleRun, roleRun.lines[roleRun.next])
                      EXCEPT !.next = @ + 1]
    /\ UNCHANGED rolesFrame

\* filteredLines.join('\n') is written to the roles_filtered file
FilterWrite ==
    /\ roleRun.running
    /\ ~roleRun.done
    /\ roleRun.next > Len(roleRun.lines)
    /\ roleRun' = [roleRun EXCEPT !.written = roleRun.filteredLines,
                                  !.done = TRUE]
    /\ UNCHANGED rolesFrame

RolesNext ==
    \/ FilterLine
    \/ FilterWrite

RolesSpec == RolesInit /\ [][RolesNext]_vars

\* the statement's subject is a reserved role
Reserved(st) ==
    /\ Len(st) >= 2
    /\ st[1].kind = "kw"
    /\ st[2].kind = "name"
    /\ st[2].name.head \in SYSTEM_ROLES
    /\ st[2].name.tail = ""

\* the statements of a script, as a set
StatementSet(lines) ==
    {Statements(lines)[i] : i \in 1..Len(Statements(lines))}

\* C21: whatever the order and the line layout of the statements of the dump,
\* the script filterRoles writes holds no CREATE ROLE or ALTER ROLE statement
\* whose subject is a reserved role.
C21_NoReservedRoleSurvives ==
    (roleRun.running /\ roleRun.done) =>
        \A st \in StatementSet(roleRun.written) : ~Reserved(st)

\* C22: every statement of the dump whose subject is not a reserved role is a
\* statement of the script filterRoles writes, also when it directly follows
\* a reserved-role statement written on a single line.
C22_NoCustomRoleDropped ==
    (roleRun.running /\ roleRun.done) =>
        \A st \in StatementSet(roleRun.lines) :
            ~Reserved(st) => st \in StatementSet(roleRun.written)

----------------------------------------------------------------------------
(* Properties of the load tools: C23 (specification Spec) *)

\* the step of this name is recorded, as a success
RecordedOk(name) ==
    \E i \in 1..Len(stepResults) :
        stepResults[i].name = name /\ stepResults[i].success

\* the step of this name is not recorded as failed by the load of dump
NotFailedByLoad(name, dump) ==
    \A i \in 1..Len(stepResults) :
        stepResults[i].name = name =>
            stepResults[i].error.message # dump

\* C23: a failure while the roles script, the schema script or the data
\* script is applied to the target is not fatal: sync-roles and sync-schema,
\* which end with the load, are recorded as successful and the run goes on;
\* the load of the data leaves no error in flight and sync-data, when recorded
\* as failed, failed at a later operation.
C23_ApplyFailureNotFatal ==
    /\ "roles-apply" \in faults => RecordedOk("sync-roles")
    /\ "schema-apply" \in faults => RecordedOk("sync-schema")
    /\ "import-row" \in faults =>
         /\ pc = "data.enable" => pending = NoError
         /\ NotFailedByLoad("sync-data", "psql data_dump")
         /\ thrown.message # "psql data_dump"

\* all three loads failed and the run returned a success with every step
\* recorded as successful
C23_Witness ==
    /\ pc = "returned"
    /\ result.success
    /\ {"roles-apply", "schema-apply", "import-row"} \subseteq faults
    /\ RecordedOk("sync-roles")
    /\ RecordedOk("sync-schema")
    /\ RecordedOk("sync-data")

----------------------------------------------------------------------------
(* sync/database/sequence-sync.ts: StorageSync, the copies of the objects *)

MaxBuckets == 2

MaxFiles == 3

MaxConcurrency == 2

\* options.storage.concurrency: z.number() accepts every number
Concurrencies == 0..MaxConcurrency

\* only Storage Transfer is switched on
StorageOnlyConfig ==
    [components |-> [roles |-> FALSE, schema |-> FALSE, auth |-> FALSE,
                     data |-> FALSE, storage |-> TRUE],
     dryRun |-> FALSE, source |-> Url("db.a", ""), target |-> Url("db.b", ""),
     sameApiUrl |-> FALSE, migrateIdentities |-> TRUE]

\* the source's buckets, each by the number of objects its listing gives
BucketLists ==
    UNION {[1..n -> 0..MaxFiles] : n \in 1..MaxBuckets}

\* the entry of results for a bucket
BucketSyncResult(bucket, total, uploaded, failed) ==
    [bucket |-> bucket, total |-> total, uploaded |-> uploaded,
     failed |-> failed]

\* what is followed of one call of syncBucket
NoBucket ==
    [listed |-> FALSE, returned |-> FALSE, files |-> <<>>, attempts |-> <<>>,
     uploaded |-> 0, failed |-> 0]

\* sync-storage is entered, listBuckets has returned the source's buckets
BucketInit ==
    /\ PipelineAt(StorageOnlyConfig, 7, {}, {}, <<>>)
    /\ auth = NoAuthRun
    /\ targetAuth = NoRows
    /\ sequences = NoSequences
    /\ seqRun = NoSeqRun
    /\ roleRun = NoRun
    /\ cliRun = NoRun
    /\ dataRun = NoRun
    /\ retryRun = NoRun
    /\ \E bs \in BucketLists, c \in Concurrencies :
         storageRun = [running |-> TRUE, concurrency |-> c, buckets |-> bs,
                       bucket |-> 1, phase |-> "create", results |-> <<>>,
                       calls |-> <<NoBucket>>]

storageFrame == <<config, pc, step, started, stepResults, thrown, pending,
                  sourcePool, targetPool, pools, sslPreference, attempts,
                  suspended, files, dirs, disk, result, faults, auth,
                  targetAuth, sequences, seqRun, roleRun, cliRun, dataRun,
                  retryRun>>

\* the copies p-limit has started and that have not settled
InFlight(copies) ==
    Cardinality({f \in 1..Len(copies) :
                    copies[f] \in {"downloading", "uploading"}})

\* pLimit(concurrency) throws a TypeError unless concurrency is an integer
\* from 1 up
pLimitValid(concurrency) == concurrency >= 1

canStart_unbounded(copies, concurrency) == TRUE

\* p-limit starts a queued function while fewer than concurrency are running
canStart(copies, concurrency) == InFlight(copies) < concurrency

\* the loop of sync() goes on to the next bucket with the result pushed
nextBucket(run, entry, call) ==
    LET last == run.bucket = Len(run.buckets)
    IN  [run EXCEPT !.results = Append(@, entry),
                    !.calls = IF last THEN Append(SubSeq(@, 1, Len(@) - 1), call)
                              ELSE Append(SubSeq(@, 1, Len(@) - 1), call)
                                   \o <<NoBucket>>,
                    !.bucket = @ + 1,
                    !.phase = IF last THEN "done" ELSE "create"]

\* the catch block of the loop of sync(): the bucket counts as one failure
bucketFailed(run) ==
    nextBucket(run, BucketSyncResult(run.bucket, 0, 0, 1),
               run.calls[Len(run.calls)])

\* syncBucket: await this.createBucket(bucket)
BucketCreate ==
    /\ storageRun.running
    /\ storageRun.phase = "create"
    /\ \E createOk \in BOOLEAN :
         storageRun' = IF createOk THEN [storageRun EXCEPT !.phase = "list"]
                       ELSE bucketFailed(storageRun)
    /\ targetOps' = targetOps \cup {Issue("createBucket")}
    /\ UNCHANGED storageFrame

\* syncBucket: listAllFiles, pLimit(concurrency), and files.map(...) that
\* hands every file to the limiter
BucketList ==
    /\ storageRun.running
    /\ storageRun.phase = "list"
    /\ \E listOk \in BOOLEAN :
         LET n    == storageRun.buckets[storageRun.bucket]
             call == [NoBucket EXCEPT !.listed = TRUE,
                                      !.files = [f \in 1..n |-> "queued"],
                                      !.attempts = [f \in 1..n |-> 0]]
             k    == Len(storageRun.calls)
         IN  storageRun' =
               IF ~listOk THEN bucketFailed(storageRun)
               ELSE IF ~pLimitValid(storageRun.concurrency)
               THEN bucketFailed([storageRun EXCEPT !.calls[k] = call])
               ELSE [storageRun EXCEPT !.calls[k] = call, !.phase = "copy"]
    /\ UNCHANGED <<storageFrame, targetOps>>

\* p-limit starts the function at the head of its queue: syncFile begins with
\* the download
CopyStart ==
    /\ storageRun.running
    /\ storageRun.phase = "copy"
    /\ LET k    == Len(storageRun.calls)
           call == storageRun.calls[k]
           queued == {f \in 1..Len(call.files) : call.files[f] = "queued"}
       IN  /\ queued # {}
           /\ canStart(call.files, storageRun.concurrency)
           /\ LET f == CHOOSE g \in queued : \A h \in queued : g <= h
              IN  storageRun' = [storageRun EXCEPT
                      !.calls[k].files[f] = "downloading",
                      !.calls[k].attempts[f] = @ + 1]
    /\ UNCHANGED <<storageFrame, targetOps>>

\* syncFile: the download settles; a failure is counted by the catch block
CopyDownload ==
    /\ storageRun.running
    /\ storageRun.phase = "copy"
    /\ LET k == Len(storageRun.calls) IN
       \E f \in 1..Len(storageRun.calls[k].files), downloadOk \in BOOLEAN :
         /\ storageRun.calls[k].files[f] = "downloading"
         /\ storageRun' =
              IF downloadOk
              THEN [storageRun EXCEPT !.calls[k].files[f] = "uploading"]
              ELSE [storageRun EXCEPT !.calls[k].files[f] = "failed",
                                      !.calls[k].failed = @ + 1]
    /\ UNCHANGED <<storageFrame, targetOps>>

\* syncFile: the upload settles; uploaded++ or failed++
CopyUpload ==
    /\ storageRun.running
    /\ storageRun.phase = "copy"
    /\ LET k == Len(storageRun.calls) IN
       \E f \in 1..Len(storageRun.calls[k].files), uploadOk \in BOOLEAN :
         /\ storageRun.calls[k].files[f] = "uploading"
         /\ storageRun' =
              IF uploadOk
              THEN [storageRun EXCEPT !.calls[k].files[f] = "uploaded",
                                      !.calls[k].uploaded = @ + 1]
              ELSE [storageRun EXCEPT !.calls[k].files[f] = "failed",
                                      !.calls[k].failed = @ + 1]
         /\ targetOps' = targetOps \cup {Issue("upload")}
    /\ UNCHANGED storageFrame

\* Promise.allSettled resolves once every copy has settled: syncBucket
\* returns its counts
BucketReturn ==
    /\ storageRun.running
    /\ storageRun.phase = "copy"
    /\ LET k    == Len(storageRun.calls)
           call == storageRun.calls[k]
       IN  /\ \A f \in 1..Len(call.files) :
                 call.files[f] \in {"uploaded", "failed"}
           /\ storageRun' =
                nextBucket(storageRun,
                           BucketSyncResult(storageRun.bucket, Len(call.files),
                                            call.uploaded, call.failed),
                           [call EXCEPT !.returned = TRUE])
    /\ UNCHANGED <<storageFrame, targetOps>>

BucketNext ==
    \/ BucketCreate
    \/ BucketList
    \/ CopyStart
    \/ CopyDownload
    \/ CopyUpload
    \/ BucketReturn

BucketSpec == BucketInit /\ [][BucketNext]_vars

\* the copies in flight, over every call of syncBucket so far
AllInFlight ==
    LET RECURSIVE Sum(_)
        Sum(k) == IF k = 0 THEN 0
                  ELSE InFlight(storageRun.calls[k].files) + Sum(k - 1)
    IN  Sum(Len(storageRun.calls))

\* C24: at every moment of sync-storage the copies in flight, downloading or
\* uploading, over all buckets, are at most options.storage.concurrency.
C24_CopiesWithinLimit ==
    storageRun.running => AllInFlight <= storageRun.concurrency

\* two copies are in flight under a limit of two, a third waits in the queue
C24_Witness ==
    /\ storageRun.running
    /\ storageRun.concurrency = 2
    /\ AllInFlight = 2
    /\ \E f \in 1..Len(storageRun.calls[Len(storageRun.calls)].files) :
         storageRun.calls[Len(storageRun.calls)].files[f] = "queued"

\* the calls of syncBucket that are over
CallsOver ==
    {k \in 1..Len(storageRun.calls) :
        k < Len(storageRun.calls) \/ storageRun.phase = "done"}

\* C25: a copy that fails neither cancels nor skips another: for a bucket
\* whose listing succeeded every listed object was attempted exactly once
\* when the call of syncBucket is over, never more than once before, and
\* the result syncBucket returns has uploaded + failed = total.
C25_EveryObjectAttemptedOnce ==
    storageRun.running =>
        \A k \in 1..Len(storageRun.calls) :
            LET call == storageRun.calls[k] IN
            call.listed =>
                /\ \A f \in 1..Len(call.files) : call.attempts[f] <= 1
                /\ k \in CallsOver =>
                     \A f \in 1..Len(call.files) : call.attempts[f] = 1
                /\ call.returned =>
                     /\ storageRun.results[k].total = Len(call.files)
                     /\ storageRun.results[k].uploaded
                          + storageRun.results[k].failed = Len(call.files)

----------------------------------------------------------------------------
(* sync/database/sequence-sync.ts: StorageSync.rewriteStorageUrls on the
   values of the target *)

MaxColumns == 2

\* Texts are sequences of symbols: "a" and "b" stand for two API URLs
\* without a trailing slash, "1" for a further character, "x" for a path.
SourceApiUrls == {<<"a">>, <<"a", "/">>}

TargetApiUrls == {<<"a">>, <<"b">>, <<"a", "1">>}

\* the values a url column or the avatar_url field can hold
UrlValues == {<<"a", "/", "x">>, <<"b", "/", "x">>}

\* Names of the catalog are sequences of character classes: l(etter),
\* d(igit), u(nderscore), o(ther)
TableNames == {<<"l", "u">>, <<"l", "o">>}

ColumnNames == {<<"u", "l", "d">>, <<"d", "l">>}

\* a row of information_schema.columns the query selects, with the value
\* the column holds in the table's row
CatalogRow(table, column, value) ==
    [table_name |-> table, column_name |-> column, value |-> value]

Catalogs ==
    UNION {[1..n -> {CatalogRow(t, c, v) :
                        t \in TableNames, c \in ColumnNames, v \in UrlValues}] :
              n \in 0..MaxColumns}

\* url.replace(/\/$/, '')
stripSlash(url) ==
    IF url # <<>> /\ url[Len(url)] = "/" THEN SubSeq(url, 1, Len(url) - 1)
    ELSE url

\* value LIKE prefix || '%'
like(value, prefix) ==
    /\ Len(prefix) <= Len(value)
    /\ SubSeq(value, 1, Len(prefix)) = prefix

RECURSIVE replace(_, _, _)
\* SQL replace(value, from, to): every occurrence of from, left to right
replace(value, from, to) ==
    IF value = <<>> THEN <<>>
    ELSE IF from # <<>> /\ like(value, from)
    THEN to \o replace(SubSeq(value, Len(from) + 1, Len(value)), from, to)
    ELSE <<Head(value)>> \o replace(Tail(value), from, to)

\* UPDATE ... SET col = replace(col, $1, $2) WHERE col LIKE $3
updateUrl(value, sourceUrl, targetUrl) ==
    IF like(value, sourceUrl) THEN replace(value, sourceUrl, targetUrl)
    ELSE value

\* /^[a-zA-Z_][a-zA-Z0-9_]*$/.test(name)
tableNameRegex(name) ==
    /\ name # <<>>
    /\ name[1] \in {"l", "u"}
    /\ \A i \in 1..Len(name) : name[i] \in {"l", "d", "u"}

validNames_tableOnly(row) == tableNameRegex(row.table_name)

\* the test the loop makes before it builds the UPDATE of a column
validNames(row) ==
    tableNameRegex(row.table_name) /\ tableNameRegex(row.column_name)

skipRewrite_never(sourceUrl, targetUrl) == FALSE

\* if (sourceUrl === targetUrl) return
skipRewrite(sourceUrl, targetUrl) == sourceUrl = targetUrl

\* sync() has gone through the buckets and calls rewriteStorageUrls; the
\* target holds an avatar_url and the url columns of the catalog
RewriteInit ==
    /\ \E s \in SourceApiUrls, t \in TargetApiUrls, av \in UrlValues,
          cat \in Catalogs :
         /\ PipelineAt([StorageOnlyConfig EXCEPT
                           !.sameApiUrl = (stripSlash(s) = stripSlash(t))],
                       7, {Issue("createBucket"), Issue("upload")}, {}, <<>>)
         /\ storageRun = [running |-> TRUE, phase |-> "start",
                          sourceApiUrl |-> s, targetApiUrl |-> t,
                          sourceUrl |-> <<>>, targetUrl |-> <<>>,
                          avatar |-> av, catalog |-> cat,
                          before |-> [avatar |-> av, catalog |-> cat],
                          rows |-> <<>>, next |-> 1, statements |-> <<>>,
                          connects |-> 0, releases |-> 0, threw |-> FALSE]
    /\ auth = NoAuthRun
    /\ targetAuth = NoRows
    /\ sequences = NoSequences
    /\ seqRun = NoSeqRun
    /\ roleRun = NoRun
    /\ cliRun = NoRun
    /\ dataRun = NoRun
    /\ retryRun = NoRun

rewriteFrame == <<config, pc, step, started, stepResults, thrown, pending,
                  sourcePool, targetPool, sslPreference, attempts, suspended,
                  files, dirs, disk, result, faults, auth, targetAuth,
                  sequences, seqRun, roleRun, cliRun, dataRun,
                  retryRun>>

\* the two URLs are normalised and compared, then the client is taken from
\* the target pool
RewriteStart ==
    /\ storageRun.running
    /\ storageRun.phase = "start"
    /\ \E connectOk \in BOOLEAN :
         LET sourceUrl == stripSlash(storageRun.sourceApiUrl)
             targetUrl == stripSlash(storageRun.targetApiUrl)
             run == [storageRun EXCEPT !.sourceUrl = sourceUrl,
                                       !.targetUrl = targetUrl]
         IN  IF skipRewrite(sourceUrl, targetUrl)
             THEN /\ storageRun' = [run EXCEPT !.phase = "done"]
                  /\ UNCHANGED pools
             ELSE IF ~connectOk
             THEN /\ storageRun' = [run EXCEPT !.phase = "done", !.threw = TRUE]
                  /\ UNCHANGED pools
             ELSE /\ storageRun' = [run EXCEPT !.phase = "auth",
                                               !.connects = @ + 1]
                  /\ pools' = [pools EXCEPT ![targetPool] = connect(@)]
    /\ UNCHANGED <<rewriteFrame, targetOps>>

\* UPDATE auth.users SET raw_user_meta_data = jsonb_set(... avatar_url ...)
RewriteAvatar ==
    /\ storageRun.running
    /\ storageRun.phase = "auth"
    /\ \E updateOk \in BOOLEAN :
         storageRun' =
           IF updateOk
           THEN [storageRun EXCEPT
                   !.avatar = updateUrl(@, storageRun.sourceUrl,
                                        storageRun.targetUrl),
                   !.statements = Append(@, [table_name |-> <<"auth.users">>,
                                             column_name |-> <<"avatar_url">>]),
                   !.phase = "columns"]
           ELSE [storageRun EXCEPT !.threw = TRUE, !.phase = "release"]
    /\ targetOps' = targetOps \cup {Issue("rewrite")}
    /\ UNCHANGED <<rewriteFrame, pools>>

\* SELECT table_name, column_name FROM information_schema.columns ...
RewriteColumns ==
    /\ storageRun.running
    /\ storageRun.phase = "columns"
    /\ \E selectOk \in BOOLEAN :
         storageRun' =
           IF ~selectOk
           THEN [storageRun EXCEPT !.threw = TRUE, !.phase = "release"]
           ELSE [storageRun EXCEPT
                   !.rows = storageRun.catalog, !.next = 1,
                   !.phase = IF storageRun.catalog = <<>> THEN "release"
                             ELSE "column"]
    /\ UNCHANGED <<rewriteFrame, pools, targetOps>>

\* one turn of the loop over the rows of the catalog: the names are tested,
\* the UPDATE is sent, its failure is logged
RewriteColumn ==
    /\ storageRun.running
    /\ storageRun.phase = "column"
    /\ \E updateOk \in BOOLEAN :
         LET i    == storageRun.next
             row  == storageRun.rows[i]
             last == i = Len(storageRun.rows)
             run  == [storageRun EXCEPT
                        !.next = i + 1,
                        !.phase = IF last THEN "release" ELSE "column"]
         IN  IF ~validNames(row)
             THEN /\ storageRun' = run
                  /\ UNCHANGED targetOps
             ELSE /\ storageRun' =
                       [run EXCEPT
                          !.statements = Append(@,
                              [table_name |-> row.table_name,
                               column_name |-> row.column_name]),
                          !.catalog[i].value =
                              IF updateOk
                              THEN updateUrl(@, storageRun.sourceUrl,
                                             storageRun.targetUrl)
                              ELSE @]
                  /\ targetOps' = targetOps \cup {Issue("rewrite")}
    /\ UNCHANGED <<rewriteFrame, pools>>

\* finally { client.release() }
RewriteRelease ==
    /\ storageRun.running
    /\ storageRun.phase = "release"
    /\ storageRun' = [storageRun EXCEPT !.releases = @ + 1, !.phase = "done"]
    /\ pools' = [pools EXCEPT ![targetPool] =
                    release(@, clientReplica(pools[targetPool]))]
    /\ UNCHANGED <<rewriteFrame, targetOps>>

RewriteNext ==
    \/ RewriteStart
    \/ RewriteAvatar
    \/ RewriteColumns
    \/ RewriteColumn
    \/ RewriteRelease

RewriteSpec == RewriteInit /\ [][RewriteNext]_vars

\* rewriteStorageUrls has returned without an error
RewriteReturned ==
    storageRun.running /\ storageRun.phase = "done" /\ ~storageRun.threw

\* C26: when the two endpoints differ, after the rewrite no avatar_url and no
\* value of a url column that began with the source endpoint still begins
\* with it.
C26_RewriteTotal ==
    (RewriteReturned /\ storageRun.sourceApiUrl # storageRun.targetApiUrl) =>
        /\ like(storageRun.before.avatar, storageRun.sourceApiUrl)
             => ~like(storageRun.avatar, storageRun.sourceApiUrl)
        /\ \A i \in 1..Len(storageRun.catalog) :
             like(storageRun.before.catalog[i].value, storageRun.sourceApiUrl)
               => ~like(storageRun.catalog[i].value, storageRun.sourceApiUrl)

\* C27: when the two endpoints are equal the rewrite does nothing: no UPDATE
\* is sent, no client is taken from the target pool, and no value changes.
C27_SameEndpointNoRewrite ==
    (storageRun.running /\ storageRun.sourceApiUrl = storageRun.targetApiUrl) =>
        /\ storageRun.statements = <<>>
        /\ storageRun.connects = 0
        /\ \A o \in targetOps : o.op # "rewrite"
        /\ storageRun.avatar = storageRun.before.avatar
        /\ storageRun.catalog = storageRun.before.catalog
        /\ storageRun.phase \in {"start", "done"}

\* the rewrite has returned for equal endpoints, over a target that holds
\* values that begin with the endpoint
C27_Witness ==
    /\ RewriteReturned
    /\ storageRun.sourceApiUrl = storageRun.targetApiUrl
    /\ like(storageRun.avatar, storageRun.sourceApiUrl)
    /\ storageRun.catalog # <<>>

\* the pattern, spelled out on the character classes
Strict(name) ==
    /\ Len(name) >= 1
    /\ name[1] # "d"
    /\ \A i \in 1..Len(name) : name[i] # "o"

\* the rows of the catalog the loop has gone through
RowsDone ==
    IF storageRun.phase = "column" THEN storageRun.next - 1
    ELSE Len(storageRun.rows)

\* the statements sent for the columns of the catalog
ColumnStatements ==
    SelectSeq(storageRun.statements,
              LAMBDA st : st.table_name # <<"auth.users">>)

\* C28: no UPDATE is built from a table or column name of the catalog that
\* fails the identifier pattern; such a row is skipped, and every row with
\* well-formed names, before or after it, gets its UPDATE, in order.
C28_OnlyStrictIdentifiers ==
    storageRun.running =>
        /\ \A i \in 1..Len(ColumnStatements) :
             /\ Strict(ColumnStatements[i].table_name)
             /\ Strict(ColumnStatements[i].column_name)
        /\ ColumnStatements =
             [i \in 1..Len(SelectSeq(SubSeq(storageRun.rows, 1, RowsDone),
                             LAMBDA r : Strict(r.table_name)
                                        /\ Strict(r.column_name))) |->
                [table_name |->
                    SelectSeq(SubSeq(storageRun.rows, 1, RowsDone),
                              LAMBDA r : Strict(r.table_name)
                                         /\ Strict(r.column_name))[i].table_name,
                 column_name |->
                    SelectSeq(SubSeq(storageRun.rows, 1, RowsDone),
                              LAMBDA r : Strict(r.table_name)
                                         /\ Strict(r.column_name))[i].column_name]]

\* a row with an ill-formed name was skipped and the row after it was
\* rewritten
C28_Witness ==
    /\ RewriteReturned
    /\ Len(storageRun.rows) = 2
    /\ ~Strict(storageRun.rows[1].column_name)
    /\ Len(ColumnStatements) = 1
    /\ ColumnStatements[1].table_name = storageRun.rows[2].table_name
    /\ ~like(storageRun.catalog[2].value, storageRun.sourceUrl)
    /\ like(storageRun.before.catalog[2].value, storageRun.sourceUrl)

\* ---------------------------------------------------------------------------
\* The sync command (cli.ts): the exit code of the process around execute()
\* ---------------------------------------------------------------------------

\* the process ended before the orchestrator was constructed, or after it
Exited(isCI, code) ==
    [running |-> TRUE, phase |-> "exited", isCI |-> isCI, exitCode |-> code]

\* printCISummary: its last statement sets process.exitCode
printCISummary_onWarnings(success) == IF success /\ faults = {} THEN 0 ELSE 1
\* printCISummary: process.exitCode = 1 only for a result that is not
\* successful; the interactive summary never touches the exit code
printCISummary(success) == IF ~success THEN 1 ELSE 0

\* the action of the sync command stops before the run: the user declines
\* the confirmation of the interactive mode (exit 0), or validateConfig
\* reports errors (exit 1)
CliAbort ==
    /\ pc = "start"
    /\ cliRun = NoRun
    /\ \E isCI, confirmed, valid \in BOOLEAN :
         /\ ~(isCI \/ confirmed) \/ ~valid
         /\ cliRun' = Exited(isCI, IF ~(isCI \/ confirmed) THEN 0 ELSE 1)
    /\ pc' = "exited"
    /\ UNCHANGED <<config, step, started, stepResults, thrown, pending,
                   sourcePool, targetPool, pools, sslPreference, attempts,
                   targetOps, suspended, files, dirs, disk, result, faults,
                   auth, targetAuth, sequences, seqRun, roleRun, storageRun, dataRun,
                   retryRun>>

\* execute() returned a Run Result: print the summary
CliSummary ==
    /\ pc = "returned"
    /\ cliRun = NoRun
    /\ \E isCI \in BOOLEAN :
         cliRun' = [running |-> TRUE, phase |-> "summary", isCI |-> isCI,
                    exitCode |-> IF isCI THEN printCISummary(result.success)
                                 ELSE 0]
    /\ UNCHANGED <<pipelineVars, auth, targetAuth, sequences, seqRun,
                   roleRun, storageRun, dataRun,
                   retryRun>>

\* if (!result.success) process.exit(1); otherwise the action ends and the
\* process exits with process.exitCode
CliExit ==
    /\ cliRun.running
    /\ cliRun.phase = "summary"
    /\ cliRun' = Exited(cliRun.isCI,
                        IF ~result.success THEN 1 ELSE cliRun.exitCode)
    /\ UNCHANGED <<pipelineVars, auth, targetAuth, sequences, seqRun,
                   roleRun, storageRun, dataRun,
                   retryRun>>

\* the catch block of the action: execute() raised, process.exit(1)
CliCatch ==
    /\ pc = "raised"
    /\ cliRun = NoRun
    /\ \E isCI \in BOOLEAN : cliRun' = Exited(isCI, 1)
    /\ UNCHANGED <<pipelineVars, auth, targetAuth, sequences, seqRun,
                   roleRun, storageRun, dataRun,
                   retryRun>>

CliNext == Next \/ CliAbort \/ CliSummary \/ CliExit \/ CliCatch

CliSpec == Init /\ [][CliNext]_vars

\* the process has ended
CliExited == cliRun.running /\ cliRun.phase = "exited"

\* C29: whenever execute() returned a Run Result with success = true the
\* process ends with exit code 0, whatever warnings the best-effort
\* operations of the run logged; a non-zero exit code is only ever that of
\* a run that raised, that returned success = false or that never started.
C29_NonZeroOnlyOnFailure ==
    CliExited =>
        /\ (pc = "returned" /\ result.success) => cliRun.exitCode = 0
        /\ cliRun.exitCode # 0 =>
             \/ pc = "raised"
             \/ pc = "exited"
             \/ pc = "returned" /\ ~result.success

\* a CI run whose data import and role load logged warnings exits with 0
C29_Witness ==
    /\ CliExited
    /\ cliRun.isCI
    /\ pc = "returned"
    /\ result.success
    /\ {"roles-apply", "import-row"} \subseteq faults
    /\ cliRun.exitCode = 0

\* ---------------------------------------------------------------------------
\* Transient files at the end of execute()
\* ---------------------------------------------------------------------------

\* the dump files and processed copies that still exist
TransientOnDisk == disk \ {BaseDir}

\* C30: when execute() has ended, on the success path and on every failure
\* path, no transient file created by the temp-file manager is left on disk
\* and the manager's lists of files and directories are empty.
C30_TransientFilesDeleted ==
    Finished =>
        /\ TransientOnDisk = {}
        /\ files = <<>>
        /\ dirs = <<>>

\* ---------------------------------------------------------------------------
\* Step bodies run once; recorded Step Results are permanent
\* ---------------------------------------------------------------------------

\* the body of cleanup() runs in this step: as the cleanup step, or in the
\* catch block of execute()
CleanupBodyRuns == pc \in {"cleanup", "catch"} /\ pc' # pc

\* the cleanup step of this run has already been started
CleanupStarted == \E i \in 1..Len(started) : started[i] = "cleanup"

\* the list of Step Results only grows at its end
ResultsKept ==
    /\ Len(stepResults) <= Len(stepResults')
    /\ \A i \in 1..Len(stepResults) : stepResults'[i] = stepResults[i]

\* C31: within one run every step body, cleanup included, is executed at
\* most once, and a recorded Step Result is never changed or removed.
C31_BodiesOnceResultsPermanent ==
    [][/\ \A i, j \in 1..Len(started') :
             started'[i] = started'[j] => i = j
       /\ (CleanupBodyRuns /\ pc = "catch") => ~CleanupStarted
       /\ ResultsKept]_vars

\* ---------------------------------------------------------------------------
\* The per-host SSL preference within one run
\* ---------------------------------------------------------------------------

\* the only change a host's preference undergoes in one step
PreferenceStep(h) ==
    sslPreference'[h] # sslPreference[h] =>
        /\ sslPreference[h] = "unset"
        /\ sslPreference'[h] = "nossl"

\* a pool created in this step for a host already recorded as no-SSL
NewPoolsHonour ==
    \A k \in (Len(pools) + 1)..Len(pools') :
        sslPreference[getHostFromUrl(pools'[k].url)] = "nossl" =>
            ~pools'[k].ssl

\* C32: the preference of a host changes at most once in a run, only from
\* unset to no-SSL, and never reverts; while it is no-SSL every read of it
\* (a new pool for the host, shouldUseSsl) yields no SSL.
C32_PreferenceSetOnceNeverReverts ==
    [][/\ \A h \in Hosts : PreferenceStep(h)
       /\ NewPoolsHonour
       /\ \A u \in Urls :
            sslPreference'[getHostFromUrl(u)] = "nossl" =>
                ~shouldUseSsl(sslPreference', u)]_vars

\* the no-SSL fallback was taken twice for one host: by the source, and
\* again by the target whose first test, already without SSL, failed with
\* an SSL-class error; the host is still recorded as no-SSL
C32_Witness ==
    \E i, j \in 1..Len(attempts) :
        /\ i + 1 < j
        /\ attempts[i].label = "source database"
        /\ attempts[j].label = "target database"
        /\ SameHost(attempts[i].url, attempts[j].url)
        /\ SslClassFailure(attempts[i])
        /\ ~attempts[j].ssl
        /\ attempts[j].outcome # Ok
        /\ includesSSL(attempts[j].outcome)
        /\ sslPreference[getHostFromUrl(attempts[i].url)] = "nossl"

\* ---------------------------------------------------------------------------
\* StorageSync.listAllFiles: the recursive, paged listing of one bucket
\* ---------------------------------------------------------------------------

\* the page size of the listing requests (limit = 1000 in the code)
PageLimit == 1

EntryNames == {"a", "b"}

\* what the listing API gives for an object, and for a folder (no id)
FileEntry(name) == [name |-> name, id |-> TRUE, items |-> <<>>]

FolderEntry(name, items) == [name |-> name, id |-> FALSE, items |-> items]

\* the folders built over the given sub-folders, their entries in the
\* API's order of names
Level(children) ==
    LET Entries(n) == {<<>>, <<FileEntry(n)>>}
                         \cup {<<FolderEntry(n, c)>> : c \in children}
    IN  {ea \o eb : ea \in Entries("a"), eb \in Entries("b")}

\* the bucket trees: objects at up to three folder levels
BucketTrees == Level(Level(Level({})))

\* the prefixes whose listing request can fail
Prefixes == {<<>>, <<"a">>, <<"b">>, <<"a", "b">>}

RECURSIVE Subtree(_, _)
\* the entries directly under a prefix
Subtree(tree, prefix) ==
    IF prefix = <<>> THEN tree
    ELSE LET hit == {i \in 1..Len(tree) :
                        tree[i].name = Head(prefix) /\ ~tree[i].id}
         IN  IF hit = {} THEN <<>>
             ELSE Subtree(tree[CHOOSE i \in hit : TRUE].items, Tail(prefix))

\* storage.from(bucket).list(prefix, { limit, offset })
list(tree, prefix, limit, offset) ==
    LET items == Subtree(tree, prefix)
        last  == IF offset + limit < Len(items) THEN offset + limit
                 ELSE Len(items)
    IN  [i \in 1..(IF last > offset THEN last - offset ELSE 0) |->
            [name |-> items[offset + i].name, id |-> items[offset + i].id]]

fullPath_nameOnly(prefix, name) == <<name>>

\* prefix ? `${prefix}/${item.name}` : item.name
fullPath(prefix, name) == Append(prefix, name)

\* one activation of listAllFiles
ListCall(prefix) ==
    [prefix |-> prefix, offset |-> 0, at |-> "list", data |-> <<>>, idx |-> 1,
     allFiles |-> <<>>]

\* syncBucket has created the bucket and calls listAllFiles(bucket.name)
ListInit ==
    /\ PipelineAt(StorageOnlyConfig, 7, {}, {}, <<>>)
    /\ auth = NoAuthRun
    /\ targetAuth = NoRows
    /\ sequences = NoSequences
    /\ seqRun = NoSeqRun
    /\ roleRun = NoRun
    /\ cliRun = NoRun
    /\ dataRun = NoRun
    /\ retryRun = NoRun
    /\ \E t \in BucketTrees, f \in Prefixes \cup {<<"none">>} :
         storageRun = [running |-> TRUE, phase |-> "list", tree |-> t,
                       failing |-> f, stack |-> <<ListCall(<<>>)>>,
                       requests |-> 0, files |-> <<>>, tasks |-> <<>>]

\* the top of the while loop: one listing request
ListPage ==
    /\ storageRun.running
    /\ storageRun.phase = "list"
    /\ LET k    == Len(storageRun.stack)
           call == storageRun.stack[k]
           data == list(storageRun.tree, call.prefix, PageLimit, call.offset)
       IN  /\ call.at = "list"
           /\ storageRun' =
                IF call.prefix = storageRun.failing
                THEN [storageRun EXCEPT !.phase = "threw", !.stack = <<>>,
                                        !.requests = @ + 1]
                ELSE IF Len(data) = 0
                THEN [storageRun EXCEPT !.stack[k].at = "return",
                                        !.requests = @ + 1]
                ELSE [storageRun EXCEPT !.stack[k].at = "loop",
                                        !.stack[k].data = data,
                                        !.stack[k].idx = 1,
                                        !.requests = @ + 1]
    /\ UNCHANGED <<storageFrame, targetOps>>

\* the body of `for (const item of data)`: a file is pushed, a folder is
\* listed by a recursive call
ListItem ==
    /\ storageRun.running
    /\ storageRun.phase = "list"
    /\ LET k    == Len(storageRun.stack)
           call == storageRun.stack[k]
       IN  /\ call.at = "loop"
           /\ call.idx <= Len(call.data)
           /\ LET item == call.data[call.idx]
                  path == fullPath(call.prefix, item.name)
              IN  storageRun' =
                    IF item.id
                    THEN [storageRun EXCEPT
                            !.stack[k].allFiles = Append(@, path),
                            !.stack[k].idx = @ + 1]
                    ELSE [storageRun EXCEPT
                            !.stack = Append([@ EXCEPT ![k].idx = @ + 1],
                                             ListCall(path))]
    /\ UNCHANGED <<storageFrame, targetOps>>

\* the end of the loop body: offset += limit; a short page ends the loop
ListAdvance ==
    /\ storageRun.running
    /\ storageRun.phase = "list"
    /\ LET k    == Len(storageRun.stack)
           call == storageRun.stack[k]
       IN  /\ call.at = "loop"
           /\ call.idx > Len(call.data)
           /\ storageRun' =
                [storageRun EXCEPT
                   !.stack[k].offset = @ + PageLimit,
                   !.stack[k].at = IF Len(call.data) < PageLimit
                                   THEN "return" ELSE "list"]
    /\ UNCHANGED <<storageFrame, targetOps>>

\* return allFiles: to the caller's allFiles.push(...subFiles), or to
\* syncBucket
ListReturn ==
    /\ storageRun.running
    /\ storageRun.phase = "list"
    /\ LET k    == Len(storageRun.stack)
           call == storageRun.stack[k]
       IN  /\ call.at = "return"
           /\ storageRun' =
                IF k = 1
                THEN [storageRun EXCEPT !.phase = "listed", !.stack = <<>>,
                                        !.files = call.allFiles]
                ELSE [storageRun EXCEPT
                        !.stack = [SubSeq(@, 1, k - 1) EXCEPT
                                     ![k - 1].allFiles = @ \o call.allFiles]]
    /\ UNCHANGED <<storageFrame, targetOps>>

\* syncBucket: files.map(file => limit(...)) queues one copy per listed file
ScheduleCopies ==
    /\ storageRun.running
    /\ storageRun.phase = "listed"
    /\ storageRun' = [storageRun EXCEPT !.phase = "scheduled",
                                        !.tasks = storageRun.files]
    /\ UNCHANGED <<storageFrame, targetOps>>

ListNext ==
    ListPage \/ ListItem \/ ListAdvance \/ ListReturn \/ ScheduleCopies

\* an awaited request is always answered and the loop then resumes
ListSpec == ListInit /\ [][ListNext]_vars /\ WF_vars(ListNext)

RECURSIVE AllPaths(_, _)
\* the full paths of every object of a tree
AllPaths(tree, prefix) ==
    UNION {IF tree[i].id THEN {Append(prefix, tree[i].name)}
           ELSE AllPaths(tree[i].items, Append(prefix, tree[i].name)) :
           i \in 1..Len(tree)}

\* listAllFiles has returned to syncBucket
Listed == storageRun.phase \in {"listed", "scheduled"}

\* C33: for every bucket tree listAllFiles ends; unless a listing request
\* failed it returns every object of the tree, at any depth, exactly once and
\* under its full path, whatever the pages the entries came in; and copies
\* are queued only once that list is complete, one per listed file.
C33_ListingComplete ==
    /\ [](/\ Listed =>
               /\ \A i, j \in 1..Len(storageRun.files) :
                     storageRun.files[i] = storageRun.files[j] => i = j
               /\ {storageRun.files[i] : i \in 1..Len(storageRun.files)}
                     = AllPaths(storageRun.tree, <<>>)
          /\ storageRun.phase # "scheduled" => storageRun.tasks = <<>>
          /\ storageRun.phase = "scheduled" =>
                storageRun.tasks = storageRun.files
          /\ storageRun.phase = "threw" => storageRun.failing \in Prefixes)
    /\ <>(storageRun.phase \in {"scheduled", "threw"})

\* a bucket with two top-level entries and an object three levels down has
\* been listed over several pages and its copies queued
C33_Witness ==
    /\ storageRun.running
    /\ storageRun.phase = "scheduled"
    /\ Len(storageRun.tree) = 2
    /\ storageRun.requests > 3
    /\ \E i \in 1..Len(storageRun.tasks) : Len(storageRun.tasks[i]) = 3
    /\ \E i \in 1..Len(storageRun.tasks) : Len(storageRun.tasks[i]) = 1

\* ---------------------------------------------------------------------------
\* sync-data: nothing is done to the target before the dump exists
\* ---------------------------------------------------------------------------

\* the operations the sync-data step has issued against the target
DataStepOps == {o \in targetOps : o.step = "sync-data"}

\* DataSync.sync is past exportData
PastExport ==
    pc \in {"data.disable", "data.clear", "data.import", "data.enable"}

\* C34: when the data export fails, sync-data has issued nothing against the
\* target, neither a suspension of enforcement nor a TRUNCATE; the target is
\* only touched once the dump has been written.
C34_NoTargetOpBeforeDump ==
    /\ "data-export" \in faults =>
          /\ DataStepOps = {}
          /\ "sync-data" \notin suspended
    /\ (PastExport \/ DataStepOps # {}) => "data-export" \notin faults
    /\ PastExport => "data_dump" \in disk

\* the data export failed in a run whose auth step had already rewritten the
\* target: the data step itself left no trace on the target
C34_Witness ==
    /\ pc = "returned"
    /\ "data-export" \in faults
    /\ \E o \in targetOps : o.step = "sync-auth" /\ o.op = "authTruncate"
    /\ DataStepOps = {}
    /\ stepResults[Len(stepResults)].name = "sync-data"

\* ---------------------------------------------------------------------------
\* DataSync.sync on the rows of the target's tables
\* ---------------------------------------------------------------------------

Table(schema, name) == [schema |-> schema, name |-> name]

\* the tables of the target database, in the order of the pg_tables query
TargetTables ==
    <<Table("auth", "sessions"), Table("auth", "users"),
      Table("private", "notes"), Table("public", "audit"),
      Table("public", "items"), Table("public", "migrations")>>

TableSet == {TargetTables[i] : i \in 1..Len(TargetTables)}

\* foreign keys: auth.sessions.user_id references auth.users
References == {<<Table("auth", "sessions"), Table("auth", "users")>>}

IncludeSchemas == {{"public"}, {"public", "auth"}}

ExcludeTables == {{}, {Table("public", "audit")}}

\* the tables exportData asks pg_dump to leave out: the configured ones and,
\* always, the session tables
excluded(run) == run.excludeTables \cup {Table("auth", "sessions")}

\* the tables whose rows pg_dump writes: --schema for every included schema,
\* --exclude-table for every excluded table
dumped(run) ==
    {t \in TableSet : t.schema \in run.includeSchemas /\ t \notin excluded(run)}

\* the rows of clearTargetData's pg_tables query: every table of an included
\* schema but the migration tables
cleared(run) ==
    [i \in 1..Len(TargetTables) |->
        TargetTables[i].schema \in run.includeSchemas
        /\ TargetTables[i].name \notin {"schema_migrations", "migrations"}]

\* TRUNCATE TABLE t CASCADE empties t and every table referencing it
truncate(rows, t) ==
    [u \in TableSet |->
        IF u = t \/ <<u, t>> \in References THEN {} ELSE rows[u]]

\* sync-data is entered with the pools established
DataRowsInit ==
    /\ PipelineAt(DataOnlyConfig, 5, {}, {}, <<>>)
    /\ auth = NoAuthRun
    /\ targetAuth = NoRows
    /\ sequences = NoSequences
    /\ seqRun = NoSeqRun
    /\ roleRun = NoRun
    /\ storageRun = NoRun
    /\ cliRun = NoRun
    /\ retryRun = NoRun
    /\ \E inc \in IncludeSchemas, exc \in ExcludeTables,
          rows \in [TableSet -> {{}, {"t"}}] :
         dataRun = [running |-> TRUE, phase |-> "export",
                    includeSchemas |-> inc, excludeTables |-> exc,
                    source |-> [t \in TableSet |-> {"s"}],
                    before |-> rows, target |-> rows, dump |-> {},
                    next |-> 1, threw |-> FALSE]

dataRowsFrame == <<pipelineVars, auth, targetAuth, sequences, seqRun, roleRun,
                   storageRun, cliRun, retryRun>>

\* exportData: pg_dump writes the rows of the dumped tables, or fails
RowsExport ==
    /\ dataRun.running
    /\ dataRun.phase = "export"
    /\ \E exportOk \in BOOLEAN :
         dataRun' = IF exportFatal(exportOk)
                    THEN [dataRun EXCEPT !.phase = "done", !.threw = TRUE]
                    ELSE [dataRun EXCEPT !.phase = "list",
                                         !.dump = dumped(dataRun)]
    /\ UNCHANGED dataRowsFrame

\* disableConstraints, then clearTargetData's query of pg_tables
RowsListTables ==
    /\ dataRun.running
    /\ dataRun.phase = "list"
    /\ \E disableOk, tablesOk \in BOOLEAN :
         dataRun' = IF ~disableOk
                    THEN [dataRun EXCEPT !.phase = "done", !.threw = TRUE]
                    ELSE IF ~tablesOk
                    THEN [dataRun EXCEPT !.phase = "enable", !.threw = TRUE]
                    ELSE [dataRun EXCEPT !.phase = "truncate", !.next = 1]
    /\ UNCHANGED dataRowsFrame

\* one round of `for (const row of tablesResult.rows)`: a TRUNCATE that
\* fails is logged
RowsTruncate ==
    /\ dataRun.running
    /\ dataRun.phase = "truncate"
    /\ dataRun.next <= Len(TargetTables)
    /\ \E truncateOk \in BOOLEAN :
         dataRun' =
           [dataRun EXCEPT
              !.next = @ + 1,
              !.target = IF cleared(dataRun)[dataRun.next] /\ truncateOk
                         THEN truncate(@, TargetTables[dataRun.next])
                         ELSE @]
    /\ UNCHANGED dataRowsFrame

\* importData: psql applies the dump; what fails is logged
RowsImport ==
    /\ dataRun.running
    /\ dataRun.phase = "truncate"
    /\ dataRun.next > Len(TargetTables)
    /\ \E loaded \in SUBSET dataRun.dump :
         dataRun' =
           [dataRun EXCEPT
              !.phase = "enable",
              !.target = [t \in TableSet |->
                            IF t \in loaded THEN @[t] \cup dataRun.source[t]
                            ELSE @[t]]]
    /\ UNCHANGED dataRowsFrame

\* the finally block: enableConstraints
RowsEnable ==
    /\ dataRun.running
    /\ dataRun.phase = "enable"
    /\ \E enableOk \in BOOLEAN :
         dataRun' = [dataRun EXCEPT !.phase = "done",
                                    !.threw = @ \/ ~enableOk]
    /\ UNCHANGED dataRowsFrame

DataRowsNext ==
    RowsExport \/ RowsListTables \/ RowsTruncate \/ RowsImport \/ RowsEnable

DataRowsSpec == DataRowsInit /\ [][DataRowsNext]_vars

FailedAt(rs) == {i \in 1..Len(rs) : ~rs[i].success}

\* C36: in every Run Result, success is true exactly when every recorded step
\* succeeded and the cleanup step is among them; an unsuccessful result
\* carries exactly one error and at most one failed step, the last of its
\* list; a successful result carries no error.
C36_RunResultConsistent ==
    pc = "returned" =>
        LET rs == result.steps
        IN  /\ result.success <=>
                  /\ FailedAt(rs) = {}
                  /\ \E i \in 1..Len(rs) : rs[i].name = "cleanup"
            /\ ~result.success =>
                  /\ Len(result.errors) = 1
                  /\ Cardinality(FailedAt(rs)) <= 1
                  /\ FailedAt(rs) \subseteq {Len(rs)}
            /\ result.success => result.errors = <<>>

\* an unsuccessful Run Result whose list ends, after three successful steps
\* or more, with the one failed step
C36_Witness ==
    /\ pc = "returned"
    /\ ~result.success
    /\ Len(result.steps) > 3
    /\ FailedAt(result.steps) = {Len(result.steps)}
    /\ Len(result.errors) = 1

\* ---------------------------------------------------------------------------
\* Every pool is closed once
\* ---------------------------------------------------------------------------

\* the pools validate-connections stored in the orchestrator
StoredPools == {sourcePool, targetPool} \ {0}

\* pool k has been ended and holds no client
Closed(k) == pools[k].ending /\ pools[k].clients = <<>>

\* C37: when execute() has ended, on the success path and on every failure
\* path, every stored pool has been closed, and cleanup never calls end() on
\* a pool that was ended before; a pool whose connection test failed is
\* closed by createPoolWithSslFallback and is not stored.
C37_PoolsClosedOnce ==
    /\ [](Finished => \A k \in StoredPools : Closed(k))
    /\ [](pc \notin {"start", "validate.source", "validate.target"} =>
             \A k \in 1..Len(pools) : k \notin StoredPools => Closed(k))
    /\ [][CleanupBodyRuns => \A k \in StoredPools : ~pools[k].ending]_vars

\* ---------------------------------------------------------------------------
\* A bucket-level failure stays with its bucket
\* ---------------------------------------------------------------------------

\* the Step Result of sync-storage, once recorded
StorageResults ==
    {i \in 1..Len(stepResults) : stepResults[i].name = "sync-storage"}

\* C38: a bucket whose creation or object listing failed does not fail the
\* storage step: the step is recorded as successful, with the reference
\* rewrite run after the buckets; the step fails only when the source's
\* buckets cannot be listed.
C38_BucketFailureIsolated ==
    \A i \in StorageResults :
        /\ "bucket" \in faults =>
              /\ stepResults[i].success
              /\ (targetPool # 0 /\ ~config.sameApiUrl) =>
                    Issue("rewrite") \in {[o EXCEPT !.step = Pipeline[step]] :
                                             o \in targetOps}
        /\ ~stepResults[i].success =>
              stepResults[i].error = PlainError("Failed to list buckets")

\* ---------------------------------------------------------------------------
\* ConnectionBuilder: the database URL handed to pg_dumpall, pg_dump and psql
\* ---------------------------------------------------------------------------

\* a database URL with what its text holds besides host and path: the
\* sslmode parameters of its query, in order, and whether new URL() parses it
DbUrl(host, rest, sslmode, parses) ==
    [host |-> host, rest |-> rest, sslmode |-> sslmode, parses |-> parses]

DbUrls ==
    {DbUrl(h, r, m, p) : h \in Hosts, r \in {"", "localhost"},
                         m \in {<<>>, <<"disable">>, <<"require">>},
                         p \in BOOLEAN}

\* the preference map after validate-connections: a host is unset or no-SSL
PreferenceMaps == [Hosts -> {"unset", "nossl"}]

ExternalTools == {"pg_dumpall", "pg_dump", "psql"}

\* addSslModeIfNeeded: the URL as it is when SSL is to be used; otherwise
\* sslmode=disable is set unless the query has an sslmode already, or, for a
\* text new URL() rejects, appended
addSslModeIfNeeded(pref, dbUrl) ==
    IF shouldUseSsl(pref, dbUrl) THEN dbUrl
    ELSE IF dbUrl.parses
    THEN IF dbUrl.sslmode = <<>>
         THEN [dbUrl EXCEPT !.sslmode = <<"disable">>]
         ELSE dbUrl
    ELSE [dbUrl EXCEPT !.sslmode = Append(@, "disable")]

\* buildDbUrl and buildDirectDbUrl
buildDbUrl(pref, connection) == addSslModeIfNeeded(pref, connection)

\* a sync() method is about to build the URL for its external tool
DbUrlInit ==
    /\ PipelineAt(RolesOnlyConfig, 2, {}, {}, <<>>)
    /\ auth = NoAuthRun
    /\ targetAuth = NoRows
    /\ sequences = NoSequences
    /\ seqRun = NoSeqRun
    /\ roleRun = NoRun
    /\ storageRun = NoRun
    /\ cliRun = NoRun
    /\ retryRun = NoRun
    /\ \E u \in DbUrls, p \in PreferenceMaps :
         dataRun = [running |-> TRUE, phase |-> "build", dbUrl |-> u,
                    pref |-> p, built |-> u, tool |-> "", arg |-> u]

\* const dbUrl = this.connectionBuilder.buildDbUrl(connection)
BuildDbUrl ==
    /\ dataRun.running
    /\ dataRun.phase = "build"
    /\ dataRun' = [dataRun EXCEPT
                     !.phase = "built",
                     !.built = buildDbUrl(dataRun.pref, dataRun.dbUrl)]
    /\ UNCHANGED dataRowsFrame

\* execa(tool, [dbUrl, ...])
RunTool ==
    /\ dataRun.running
    /\ dataRun.phase = "built"
    /\ \E tool \in ExternalTools :
         dataRun' = [dataRun EXCEPT !.phase = "run", !.tool = tool,
                                    !.arg = dataRun.built]
    /\ UNCHANGED dataRowsFrame

DbUrlNext == BuildDbUrl \/ RunTool

DbUrlSpec == DbUrlInit /\ [][DbUrlNext]_vars

\* the sslmode a URL's query makes libpq use: that of its last sslmode
\* parameter
SslMode(dbUrl) ==
    IF dbUrl.sslmode = <<>> THEN "" ELSE dbUrl.sslmode[Len(dbUrl.sslmode)]

\* C39: for a loopback host and for a host recorded as no-SSL, the URL an
\* external tool is started with carries sslmode=disable.
C39_ToolUrlDisablesSsl ==
    (/\ dataRun.running
     /\ dataRun.phase = "run"
     /\ \/ isLocalConnection(dataRun.dbUrl)
        \/ dataRun.pref[getHostFromUrl(dataRun.dbUrl)] = "nossl") =>
        SslMode(dataRun.arg) = "disable"

\* ---------------------------------------------------------------------------
\* utils/retry.ts: withRetry
\* ---------------------------------------------------------------------------

MaxAttempts == 3

\* the options a caller passes: attempts, delays in ms, retryable categories
RetryOptions ==
    [maxAttempts : 0..MaxAttempts, baseDelayMs : {1, 3},
     maxDelayMs : {2, 5}, exponentialBase : {1, 2},
     retryableCategories : {{"CONNECTION", "TIMEOUT"}, {"EXPORT"}}]

\* what one call of fn() can end in: a value, or a thrown error
Resolved(value) == [ok |-> TRUE, value |-> value, error |-> NoError]

Rejected(error) == [ok |-> FALSE, value |-> 0, error |-> error]

FnErrors ==
    {SyncError("connect", "CONNECTION", "fn"),
     SyncError("export", "EXPORT", "fn"),
     PlainError("fn")}

RECURSIVE pow(_, _)
\* Math.pow on the integers
pow(base, exponent) ==
    IF exponent = 0 THEN 1 ELSE base * pow(base, exponent - 1)

\* Math.min(baseDelayMs * Math.pow(exponentialBase, attempt - 1), maxDelayMs)
delay(options, attempt) ==
    LET d == options.baseDelayMs * pow(options.exponentialBase, attempt - 1)
    IN  IF d < options.maxDelayMs THEN d ELSE options.maxDelayMs

fatal_never(options, error) == FALSE

\* error instanceof SyncError && !retryableCategories.includes(error.category)
fatal(options, error) ==
    error.kind = "SyncError" /\ error.category \notin options.retryableCategories

\* withRetry(fn, options) is called, outside of any run
RetryInit ==
    /\ config = DataOnlyConfig
    /\ pc = "start"
    /\ step = 0
    /\ started = <<>>
    /\ stepResults = <<>>
    /\ thrown = NoError
    /\ pending = NoError
    /\ sourcePool = 0
    /\ targetPool = 0
    /\ pools = <<>>
    /\ sslPreference = [h \in Hosts |-> "unset"]
    /\ attempts = <<>>
    /\ targetOps = {}
    /\ suspended = {}
    /\ files = <<>>
    /\ dirs = <<>>
    /\ disk = {}
    /\ result = NoResult
    /\ faults = {}
    /\ auth = NoAuthRun
    /\ targetAuth = NoRows
    /\ sequences = NoSequences
    /\ seqRun = NoSeqRun
    /\ roleRun = NoRun
    /\ storageRun = NoRun
    /\ cliRun = NoRun
    /\ dataRun = NoRun
    /\ \E o \in RetryOptions :
         retryRun = [running |-> TRUE, phase |-> "call", options |-> o,
                     attempt |-> 1, calls |-> <<>>, delays |-> <<>>,
                     lastError |-> PlainError("Unknown error"),
                     outcome |-> Rejected(NoError)]

retryFrame == <<pipelineVars, auth, targetAuth, sequences, seqRun, roleRun,
                storageRun, cliRun, dataRun>>

\* one round of the for loop: fn() is awaited; its value is returned, or its
\* error is rethrown, or the delay is computed and slept
RetryAttempt ==
    /\ retryRun.running
    /\ retryRun.phase = "call"
    /\ retryRun.attempt <= retryRun.options.maxAttempts
    /\ \E r \in {Resolved(retryRun.attempt)} \cup {Rejected(e) : e \in FnErrors} :
         LET run == [retryRun EXCEPT !.calls = Append(@, r)]
         IN  retryRun' =
               IF r.ok
               THEN [run EXCEPT !.phase = "returned", !.outcome = r]
               ELSE IF fatal(retryRun.options, r.error)
               THEN [run EXCEPT !.phase = "threw", !.lastError = r.error,
                                !.outcome = r]
               ELSE IF retryRun.attempt = retryRun.options.maxAttempts
               THEN [run EXCEPT !.phase = "threw", !.lastError = r.error,
                                !.outcome = r]
               ELSE [run EXCEPT
                       !.phase = "sleep", !.lastError = r.error,
                       !.delays = Append(@, delay(retryRun.options,
                                                  retryRun.attempt))]
    /\ UNCHANGED retryFrame

\* await sleep(delay); attempt++
RetrySleep ==
    /\ retryRun.running
    /\ retryRun.phase = "sleep"
    /\ retryRun' = [retryRun EXCEPT !.phase = "call", !.attempt = @ + 1]
    /\ UNCHANGED retryFrame

\* the loop ends without a return: throw lastError
RetryExhausted ==
    /\ retryRun.running
    /\ retryRun.phase = "call"
    /\ retryRun.attempt > retryRun.options.maxAttempts
    /\ retryRun' = [retryRun EXCEPT
                      !.phase = "threw",
                      !.outcome = Rejected(retryRun.lastError)]
    /\ UNCHANGED retryFrame

RetryNext == RetryAttempt \/ RetrySleep \/ RetryExhausted

RetrySpec == RetryInit /\ [][RetryNext]_vars

\* the error of call i is a SyncError of a category that is not retryable
NotRetryable(i) ==
    /\ retryRun.calls[i].error.kind = "SyncError"
    /\ retryRun.calls[i].error.category
          \notin retryRun.options.retryableCategories

\* C40: withRetry calls the operation at most maxAttempts times; a success
\* ends it with that attempt's value, a SyncError of a category that is not
\* retryable ends it with that error, the failure of attempt maxAttempts
\* ends it with the last error; nothing is called after any of these; and
\* the delay slept after attempt k is
\* min(baseDelayMs * exponentialBase^(k-1), maxDelayMs).
C40_WithRetryBounded ==
    retryRun.running =>
        LET calls == retryRun.calls
            o     == retryRun.options
            n     == Len(calls)
        IN  /\ n <= o.maxAttempts
            /\ \A i \in 1..(n - 1) : ~calls[i].ok /\ ~NotRetryable(i)
            /\ retryRun.phase = "returned" =>
                  /\ calls[n].ok
                  /\ retryRun.outcome = Resolved(n)
            /\ (retryRun.phase = "threw" /\ n > 0) =>
                  /\ ~calls[n].ok
                  /\ retryRun.outcome = calls[n]
                  /\ NotRetryable(n) \/ n = o.maxAttempts
            /\ (n > 0 /\ (calls[n].ok \/ NotRetryable(n))) =>
                  retryRun.phase \in {"returned", "threw"}
            /\ \A k \in 1..Len(retryRun.delays) :
                  \E d \in {o.baseDelayMs * pow(o.exponentialBase, k - 1)} :
                     retryRun.delays[k] = IF d < o.maxDelayMs THEN d
                                          ELSE o.maxDelayMs
            /\ Len(retryRun.delays) =
                  IF retryRun.phase \in {"returned", "threw"} /\ n > 0
                  THEN n - 1
                  ELSE IF retryRun.phase = "sleep" THEN n ELSE n

\* every attempt failed with a retryable error: two delays were slept, the
\* second one capped, and the third failure ended the call with its error
C40_Witness ==
    /\ retryRun.running
    /\ retryRun.phase = "threw"
    /\ retryRun.options.maxAttempts = 3
    /\ Len(retryRun.calls) = 3
    /\ ~NotRetryable(3)
    /\ retryRun.outcome = retryRun.calls[3]
    /\ Len(retryRun.delays) = 2
    /\ retryRun.delays[1] < retryRun.options.maxDelayMs
    /\ retryRun.delays[2] = retryRun.options.maxDelayMs

====
